---------------------------- MODULE Spec2Model ----------------------------
(***************************************************************************)
(* rdmini: stochastic reaction-diffusion simulator.                        *)
(*                                                                         *)
(* Model of the simulation engine: the process system with factored        *)
(* propensities (ssa_pp_procsys), the direct-method event selector         *)
(* (ssa_direct) and the simulator facade (parallel_ssa).                   *)
(*                                                                         *)
(* Numbers.  Rates, propensities and counts are integers (the models used  *)
(* have integral rates), so propensity arithmetic is exact.  A uniform     *)
(* draw u in [0,1) is the fraction un/UDen.  Time is fixed point: one unit *)
(* of simulated time is TScale ticks.                                      *)
(*                                                                         *)
(* Vectors indexed by population, process or instance are functions on     *)
(* 0..n-1, as in the source; short lists that are only iterated (the       *)
(* entries of pop_to_pc_tbl[p] and proc_delta_tbl[k], the reactants of a   *)
(* process) are sequences.                                                 *)
(***************************************************************************)
EXTENDS Integers, Sequences, FiniteSets, TLC

VARIABLES scen, sim, ipc, rng, nops, last, pend, solo, twin, selector, written,
          procsys, categorical, sampler, bins, collection, loaded, guarded, msets,
          driver

vars == <<scen, sim, ipc, rng, nops, last, pend, solo, twin, selector, written,
          procsys, categorical, sampler, bins, collection, loaded, guarded, msets,
          driver>>

\* The variables of the simulator and of its selector, process system and
\* categorical distribution, apart from last and nops
engine == <<scen, sim, ipc, rng, pend, solo, twin, selector, written, procsys,
            categorical>>

\* The variables of the components that are driven apart from the simulator
apart == <<sampler, bins, collection, loaded, guarded, msets, driver>>

\* ------------------------------------------------------------------------
\* Bounds of the model
\* ------------------------------------------------------------------------

\* Calls (set_count, advance) made on an engine after initialise.
MaxOps == 3

\* Events one advance(instance, t_end, rng) call may fire.
MaxFire == 3

\* Resolution of a uniform draw: u = un/UDen with un in 0..UDen-1.
UDen == 4

\* An exponential draw is one of 1..EMax, in units of simulated time.
EMax == 2

\* Ticks per unit of simulated time.
TScale == 30

\* Number of states of the callers' random generators.
RngMod == 8

\* Largest count a set_count call of the model passes.
MaxCount == 1

\* Largest number of keys a selector driven on its own is reset to.
MaxKeys == 3

\* Largest propensity passed to a selector driven on its own.
MaxProp == 2

\* Processes added to a process system driven on its own.
MaxProcs == 2

\* Significant bits of the selector's value_type.  (A double has 53; the model
\* scales the width down and makes the propensities that reach it as large as
\* two to that power.)
MantBits == 16

\* Longest weight vector a categorical distribution is constructed from.
MaxLen == 3

\* Largest weight.
MaxWeight == 3

\* Calls (update, next) made on a selector whose propensities reach the
\* precision of value_type.
MaxDriftOps == 5

\* Calls (set_count, apply) made on a process system driven on its own.
MaxSysOps == 3

\* ------------------------------------------------------------------------
\* Program constants
\* ------------------------------------------------------------------------

\* ssa_pp_procsys<3>: max_process_order
MaxOrder == 3

\* ------------------------------------------------------------------------
\* Vectors (std::vector, std::array) indexed from 0
\* ------------------------------------------------------------------------

VEmpty == [i \in {} |-> 0]

VSize(v) == Cardinality(DOMAIN v)

VPush(v, x) == [i \in 0..VSize(v) |-> IF i \in DOMAIN v THEN v[i] ELSE x]

VResize(v, n, x) == [i \in 0..(n-1) |-> IF i \in DOMAIN v THEN v[i] ELSE x]

VFill(n, x) == [i \in 0..(n-1) |-> x]

RECURSIVE SeqSum(_)
SeqSum(s) == IF s = <<>> THEN 0 ELSE Head(s) + SeqSum(Tail(s))

RECURSIVE VSumTo(_, _)
VSumTo(v, n) == IF n = 0 THEN 0 ELSE v[n-1] + VSumTo(v, n-1)

VSum(v) == VSumTo(v, VSize(v))

\* A sort that leaves the sequence in the order it was given
KeepsOrder(s) == s

\* std::sort on a short sequence (insertion sort, ascending)
RECURSIVE InsertSorted(_, _)
InsertSorted(s, x) ==
    IF s = <<>> THEN <<x>>
    ELSE IF x < Head(s) THEN <<x>> \o s
    ELSE <<Head(s)>> \o InsertSorted(Tail(s), x)

RECURSIVE SortAsc(_)
SortAsc(s) == IF s = <<>> THEN <<>> ELSE InsertSorted(SortAsc(Tail(s)), Head(s))

Max(a, b) == IF a > b THEN a ELSE b

\* ------------------------------------------------------------------------
\* small_map<pop_type,int>: vector-backed map that keeps insertion order
\* ------------------------------------------------------------------------

\* m[key] += d, inserting (key, 0) at the back first when key is absent
SmallMapAdd(m, key, d) ==
    IF \E i \in 1..Len(m) : m[i].p = key
    THEN [i \in 1..Len(m) |->
             IF m[i].p = key THEN [p |-> key, delta |-> m[i].delta + d] ELSE m[i]]
    ELSE Append(m, [p |-> key, delta |-> d])

RECURSIVE SmallMapAddAll(_, _, _)
SmallMapAddAll(m, keys, d) ==
    IF keys = <<>> THEN m
    ELSE SmallMapAddAll(SmallMapAdd(m, Head(keys), d), Tail(keys), d)

\* ------------------------------------------------------------------------
\* ssa_direct: the event selector
\* ------------------------------------------------------------------------

\* value_type arithmetic: integers of magnitude up to 2^MantBits are exact,
\* larger ones are rounded to the nearest multiple of the spacing at their
\* magnitude, a tie going to the even multiple.
Pow2(n) == 2^n

\* The spacing of the representable values at magnitude a >= 2^MantBits
Spacing(a) ==
    Pow2(CHOOSE e \in 1..(30 - MantBits) :
            Pow2(MantBits + e - 1) <= a /\ a < Pow2(MantBits + e))

\* a >= 0 rounded to a multiple of the spacing q
RoundTo(a, q) ==
    IF 2 * (a % q) < q THEN a - (a % q)
    ELSE IF 2 * (a % q) > q THEN a - (a % q) + q
    ELSE IF ((a - (a % q)) \div q) % 2 = 0 THEN a - (a % q)
    ELSE a - (a % q) + q

\* The value_type nearest to the integer v
Nearest(v) ==
    IF 0 - Pow2(MantBits) < v /\ v < Pow2(MantBits) THEN v
    ELSE IF v < 0 THEN 0 - RoundTo(0 - v, Spacing(0 - v))
    ELSE RoundTo(v, Spacing(v))

\* x rounded to value_type (x is evaluated once, then rounded)
RoundF(x) == CHOOSE y \in {Nearest(v) : v \in {x}} : TRUE

\* reset(n_key): n_key propensities, all zero, total zero
SelReset(n_key) ==
    [n_key |-> n_key, propensities |-> VFill(n_key, 0), total |-> 0]

\* An update that adds r to the total without taking the stored value off
SelUpdateAdds(sel, k, r) ==
    [sel EXCEPT !.total = sel.total + r, !.propensities[k] = r]

\* update(k, r): total += r - p; p = r, the difference and the sum each
\* rounded to value_type
SelUpdate(sel, k, r) ==
    [sel EXCEPT !.total = RoundF(sel.total + RoundF(r - sel.propensities[k])),
                !.propensities[k] = r]

\* A ladder walk that also stops when x has reached zero
RECURSIVE LadderStopsAtZero(_, _, _)
LadderStopsAtZero(sel, x, i) ==
    IF i >= sel.n_key THEN sel.n_key
    ELSE IF x - UDen * sel.propensities[i] <= 0 THEN i
    ELSE LadderStopsAtZero(sel, x - UDen * sel.propensities[i], i + 1)

\* The ladder walk of inverse_cdf: x is scaled by UDen (x = un*total at entry),
\* i is the loop index.  Returns the index at which x < 0 first holds, or
\* n_key when the walk exhausts the keys.  Each x -= propensities[i] is
\* rounded to value_type (rounding x and rounding its UDen-fold agree, UDen
\* being a power of two).
RECURSIVE Ladder(_, _, _)
Ladder(sel, x, i) ==
    IF i >= sel.n_key THEN sel.n_key
    ELSE IF RoundF(x - UDen * sel.propensities[i]) < 0 THEN i
    ELSE Ladder(sel, RoundF(x - UDen * sel.propensities[i]), i + 1)

\* inverse_cdf(u) for u = un/UDen: the key, or n_key when the code throws
\* ssa_error("fell off propensity ladder")
InverseCdf(sel, un) == Ladder(sel, RoundF(un * sel.total), 0)

InverseCdfThrows(sel, un) == InverseCdf(sel, un) >= sel.n_key

\* ------------------------------------------------------------------------
\* ssa_pp_procsys<MaxOrder>: the process system
\*
\* pop_count holds uint32 values that count() hands out as int32; the model
\* keeps the int32 value (a count below zero is the wrapped uint32).
\* ------------------------------------------------------------------------

\* initialise(n): no populations, no processes, empty tables
ProcsysNew(n) ==
    [n_pop |-> 0, n_proc |-> 0, n_instance |-> n,
     pop_count |-> [j \in 0..(n-1) |-> VEmpty],
     propensity_tbl |-> [j \in 0..(n-1) |-> VEmpty],
     rate |-> VEmpty,
     pop_to_pc_tbl |-> VEmpty,
     proc_delta_tbl |-> VEmpty]

\* add, first loop: the reactant count at which "too many reactants" is thrown
\* (the test nleft > max_process_order is made before the reactant is stored)
AddThrows(q) == Len(q.left) > MaxOrder + 1

\* add: the (p, delta) entries of the new process, in order of first occurrence,
\* reactants first
ProcDeltaEntry(q) == SmallMapAddAll(SmallMapAddAll(<<>>, q.left, -1), q.right, 1)

\* add: the largest population index named by the process (0 when none)
RECURSIVE MaxPop(_)
MaxPop(s) == IF s = <<>> THEN 0 ELSE Max(Head(s), MaxPop(Tail(s)))

\* add: the per-slot values computed by the loop over left_sorted
\* (c restarts at the population's count and decreases over a run of equal p)
RECURSIVE PropEntryLoop(_, _, _, _, _)
PropEntryLoop(entry, counts, left_sorted, i, c) ==
    IF i > Len(left_sorted) THEN entry
    ELSE LET p == left_sorted[i]
             c1 == IF i = 1 \/ p # left_sorted[i-1] THEN counts[p] ELSE c - 1
         IN PropEntryLoop(IF i - 1 \in DOMAIN entry
                          THEN [entry EXCEPT ![i-1] = c1] ELSE entry,
                          counts, left_sorted, i + 1, c1)

\* add: the propensity_tbl entry pushed for one instance: the loop's values are
\* overwritten by std::fill(prop_entry.begin(), prop_entry.end(), 1)
PropEntryInit(counts, left_sorted) ==
    LET looped == PropEntryLoop(VFill(MaxOrder, 0), counts, left_sorted, 1, 0)
    IN [i \in DOMAIN looped |-> 1]

\* add: pop_to_pc_tbl[p].push_back({key, i}) for i = 0..nleft-1
RECURSIVE PushContribs(_, _, _, _)
PushContribs(tbl, key, left_sorted, i) ==
    IF i > Len(left_sorted) THEN tbl
    ELSE PushContribs(
            [tbl EXCEPT ![left_sorted[i]] = Append(@, [k |-> key, index |-> i - 1])],
            key, left_sorted, i + 1)

\* add(q) when nothing is thrown: the tables after the call.  (With
\* MaxOrder + 1 reactants, the tables as they are if the writes past the end
\* of left_sorted and prop_entry land outside the system.)
Add(sys, q) ==
    LET key == sys.n_proc
        left_sorted == SortAsc(q.left)
        max_pop == Max(MaxPop(q.left), MaxPop(q.right))
        n_pop1 == IF max_pop >= sys.n_pop THEN max_pop + 1 ELSE sys.n_pop
        counts1 == [j \in 0..(sys.n_instance-1) |-> VResize(sys.pop_count[j], n_pop1, 0)]
        tbl1 == VResize(sys.pop_to_pc_tbl, n_pop1, <<>>)
    IN [n_pop |-> n_pop1,
        n_proc |-> sys.n_proc + 1,
        n_instance |-> sys.n_instance,
        pop_count |-> counts1,
        propensity_tbl |-> [j \in 0..(sys.n_instance-1) |->
            VPush(sys.propensity_tbl[j], PropEntryInit(counts1[j], left_sorted))],
        rate |-> VPush(sys.rate, q.rate),
        pop_to_pc_tbl |-> PushContribs(tbl1, key, left_sorted, 1),
        proc_delta_tbl |-> VPush(sys.proc_delta_tbl, ProcDeltaEntry(q))]

\* add(b, e): add every descriptor of a sequence
RECURSIVE AddAll(_, _)
AddAll(sys, qs) == IF qs = <<>> THEN sys ELSE AddAll(Add(sys, Head(qs)), Tail(qs))

\* count(p, j)
Count(sys, p, j) == sys.pop_count[j][p]

\* propensity(k, j): rate[k] times every slot of propensity_tbl[j][k]
RECURSIVE SlotProduct(_, _)
SlotProduct(kp, n) == IF n = 0 THEN 1 ELSE kp[n-1] * SlotProduct(kp, n - 1)

Propensity(sys, k, j) == sys.rate[k] * SlotProduct(sys.propensity_tbl[j][k], MaxOrder)

\* The instance whose factors ksel_updater_f reads: sel.update(k, sys.propensity(k))
\* passes no instance, so propensity's default j = 0 is used.
KselPropensityInstance(instance) == 0

\* One call of the observer.  W = [sys, sel, notified] is the state threaded
\* through a set_count or apply call: the process system, the selector the
\* observer writes, and the keys it was called with.  upd says whether the
\* observer is ksel_updater_f (TRUE) or the empty lambda (FALSE).
Notify(W, k, instance, upd) ==
    [sys |-> W.sys,
     sel |-> IF upd
             THEN SelUpdate(W.sel, k, Propensity(W.sys, k, KselPropensityInstance(instance)))
             ELSE W.sel,
     notified |-> Append(W.notified, k)]

\* apply_contrib_update as it would be if a factor slot could only grow
ApplyContribUpdateGrowsOnly(W, pc, d, j, upd) ==
    Notify([W EXCEPT !.sys.propensity_tbl[j][pc.k][pc.index] =
                        IF d > 0 THEN @ + d ELSE @], pc.k, j, upd)

\* apply_contrib_update(pc, d, notify, j)
ApplyContribUpdate(W, pc, d, j, upd) ==
    Notify([W EXCEPT !.sys.propensity_tbl[j][pc.k][pc.index] = @ + d], pc.k, j, upd)

RECURSIVE ContribLoop(_, _, _, _, _)
ContribLoop(W, pcs, d, j, upd) ==
    IF pcs = <<>> THEN W
    ELSE ContribLoop(ApplyContribUpdate(W, Head(pcs), d, j, upd), Tail(pcs), d, j, upd)

\* set_count(p, c, update_notify, j)
SetCount(W, p, c, j, upd) ==
    LET W1 == ContribLoop(W, W.sys.pop_to_pc_tbl[p], c - W.sys.pop_count[j][p], j, upd)
    IN [W1 EXCEPT !.sys.pop_count[j][p] = c]

\* apply(k, update_notify, j): the loop over proc_delta_tbl[k]
RECURSIVE ApplyLoop(_, _, _, _)
ApplyLoop(W, pds, j, upd) ==
    IF pds = <<>> THEN W
    ELSE LET pd == Head(pds)
             W1 == ContribLoop(W, W.sys.pop_to_pc_tbl[pd.p], pd.delta, j, upd)
         IN ApplyLoop([W1 EXCEPT !.sys.pop_count[j][pd.p] = @ + pd.delta],
                      Tail(pds), j, upd)

\* An apply that uses up the entries of proc_delta_tbl[k]
ApplyConsumes(W, k, j, upd) ==
    [ApplyLoop(W, W.sys.proc_delta_tbl[k], j, upd) EXCEPT
        !.sys.proc_delta_tbl[k] = <<>>]

Apply(W, k, j, upd) == ApplyLoop(W, W.sys.proc_delta_tbl[k], j, upd)

\* ------------------------------------------------------------------------
\* rd_model: the simulator's input
\*
\* species[s+1] = [diffusivity, conc10], the concentration in tenths;
\* reactions[r] = [left, right, rate], left and right std::multiset<int> of
\* species ids (iterated in ascending order);
\* cells[c+1] = [volume, neighbours], neighbours a list of [cell_id, diff_coef].
\* ------------------------------------------------------------------------

\* double -> count_type conversion of concentration*volume: the fraction is
\* discarded (the product is never negative in a valid model)
ToCount(conc10, volume) == (conc10 * volume) \div 10

RECURSIVE PowInt(_, _)
PowInt(b, e) == IF e <= 0 THEN 1 ELSE b * PowInt(b, e - 1)

\* reac.rate*std::pow(vol, 1-order); the models keep the result integral
\* (volume 1 wherever the order exceeds 1)
KRate(reac, vol) ==
    LET order == Len(reac.left)
    IN IF order <= 1 THEN reac.rate * PowInt(vol, 1 - order)
       ELSE reac.rate \div PowInt(vol, order - 1)

\* species_to_pop_id(species_id, cell_id)
SpeciesToPopId(n_species, species_id, cell_id) == cell_id * n_species + species_id

RECURSIVE Flatten(_)
Flatten(ss) == IF ss = <<>> THEN <<>> ELSE Head(ss) \o Flatten(Tail(ss))

\* initialise: the cell-local reaction processes
ReactionProcs(M) ==
    LET ns == Len(M.species)
    IN Flatten([c \in 1..Len(M.cells) |->
          [r \in 1..Len(M.reactions) |->
              LET reac == M.reactions[r]
              IN [left |-> [x \in 1..Len(reac.left) |->
                               SpeciesToPopId(ns, reac.left[x], c - 1)],
                  right |-> [x \in 1..Len(reac.right) |->
                               SpeciesToPopId(ns, reac.right[x], c - 1)],
                  rate |-> KRate(reac, M.cells[c].volume)]]])

\* initialise: the diffusion processes (neighbours with diff_coef = 0 skipped)
DiffusionProcs(M) ==
    LET ns == Len(M.species)
    IN Flatten([c \in 1..Len(M.cells) |->
          Flatten([n \in 1..Len(M.cells[c].neighbours) |->
              LET nb == M.cells[c].neighbours[n]
              IN IF nb.diff_coef = 0 THEN <<>>
                 ELSE [s \in 1..ns |->
                         [left |-> <<SpeciesToPopId(ns, s - 1, c - 1)>>,
                          right |-> <<SpeciesToPopId(ns, s - 1, nb.cell_id)>>,
                          rate |-> nb.diff_coef * M.species[s].diffusivity]]])])

KpSet(M) == ReactionProcs(M) \o DiffusionProcs(M)

\* ------------------------------------------------------------------------
\* The callers' random generators and the selector's two distributions
\* ------------------------------------------------------------------------

\* One step of a caller's generator G (a linear congruential engine)
RngNext(g) == (5 * g + 3) % RngMod

\* U(g): the numerator un of a uniform draw un/UDen in [0,1)
UDraw(g) == (RngNext(g) * UDen) \div RngMod

\* E(g): an exponential draw, in units of simulated time
EDraw(g) == 1 + (RngNext(g) % EMax)

\* E(g)/total in ticks: the quotient of a positive draw by the total, which
\* is negative when the total is.  (A zero total with a ladder walk that does
\* not fall off, where the double quotient is infinite, is reached by none of
\* the model's scenarios.)
WaitingTime(e, total) ==
    IF total > 0 THEN (e * TScale) \div total
    ELSE IF total < 0 THEN 0 - ((e * TScale) \div (0 - total))
    ELSE 0

\* ssa_direct::next(g): [threw, k, dt, g].  The uniform draw is consumed
\* before inverse_cdf can throw; the exponential draw only after it returned.
SelNext(sel, g) ==
    LET un == UDraw(g)
        g1 == RngNext(g)
        k == InverseCdf(sel, un)
    IN IF InverseCdfThrows(sel, un)
       THEN [threw |-> TRUE, k |-> 0, dt |-> 0, g |-> g1]
       ELSE [threw |-> FALSE, k |-> k,
             dt |-> WaitingTime(EDraw(g1), sel.total), g |-> RngNext(g1)]

\* ------------------------------------------------------------------------
\* parallel_ssa: the simulator facade
\* ------------------------------------------------------------------------

\* states.resize(n): a value-initialised instance_state
InstanceStateNew ==
    [t |-> 0, ksel |-> SelReset(0), stale |-> FALSE, next_k_id |-> 0, next_dt |-> 0]

\* A get_next that polls the selector whether or not the cached event is
\* stale
GetNextRedraws(st, g) ==
    LET ev == SelNext(st.ksel, g)
    IN IF ev.threw
       THEN [threw |-> TRUE, st |-> st, g |-> ev.g]
       ELSE [threw |-> FALSE,
             st |-> [st EXCEPT !.next_k_id = ev.k, !.next_dt = ev.dt,
                               !.stale = FALSE],
             g |-> ev.g]

\* instance_state::get_next(g): [threw, st, g]
GetNext(st, g) ==
    IF st.stale
    THEN LET ev == SelNext(st.ksel, g)
         IN IF ev.threw
            THEN [threw |-> TRUE, st |-> st, g |-> ev.g]
            ELSE [threw |-> FALSE,
                  st |-> [st EXCEPT !.next_k_id = ev.k, !.next_dt = ev.dt,
                                    !.stale = FALSE],
                  g |-> ev.g]
    ELSE [threw |-> FALSE, st |-> [st EXCEPT !.stale = FALSE], g |-> g]

\* initialise, up to the parallel loop: the sizes, the process system with
\* every process added, and states.resize(n_instances)
InitialiseTables(n_instances, M) ==
    [n_instances |-> n_instances,
     n_species |-> Len(M.species),
     n_reac |-> Len(M.reactions),
     n_cell |-> Len(M.cells),
     n_pop |-> Len(M.species) * Len(M.cells),
     ksys |-> AddAll(ProcsysNew(n_instances), KpSet(M)),
     states |-> [i \in 0..(n_instances-1) |-> InstanceStateNew]]

\* The W of a call made for an instance, and its write-back
Observe(S, instance) ==
    [sys |-> S.ksys, sel |-> S.states[instance].ksel, notified |-> <<>>]

Observed(S, instance, W) ==
    [S EXCEPT !.ksys = W.sys, !.states[instance].ksel = W.sel]

\* initialise, loop body for instance i, first statements:
\* state.t = t0; state.stale = true; state.ksel.reset(ksys.size())
InitialiseStart(S, i, t0) ==
    [S EXCEPT !.states[i].t = t0, !.states[i].stale = TRUE,
              !.states[i].ksel = SelReset(S.ksys.n_proc)]

\* initialise, loop body for instance i, the n-th ksys.set_count call
\* (n = 0, 1, ...; species outermost, cells innermost), without observer
InitialiseSetCount(S, M, i, n) ==
    LET s_id == n \div S.n_cell
        c_id == n % S.n_cell
        W == SetCount(Observe(S, i), SpeciesToPopId(S.n_species, s_id, c_id),
                      ToCount(M.species[s_id + 1].conc10, M.cells[c_id + 1].volume),
                      i, FALSE)
    IN Observed(S, i, W)

\* initialise, loop body for instance i: update(k) of ksel_update(i)
InitialisePrime(S, i, k) ==
    Observed(S, i, Notify(Observe(S, i), k, i, TRUE))

\* A set_count that leaves the stale flag as it finds it
SetCountKeepsCache(S, instance, species_id, cell_id, count) ==
    Observed(S, instance,
             SetCount(Observe(S, instance),
                      SpeciesToPopId(S.n_species, species_id, cell_id),
                      count, instance, TRUE))

\* set_count(instance, species_id, cell_id, count)
PSetCount(S, instance, species_id, cell_id, count) ==
    LET W == SetCount(Observe(S, instance),
                      SpeciesToPopId(S.n_species, species_id, cell_id),
                      count, instance, TRUE)
    IN [Observed(S, instance, W) EXCEPT !.states[instance].stale = TRUE]

\* The instance whose counts count(instance, ...) reads: ksys.count(pop) passes
\* no instance, so count's default j = 0 is used.
CountInstance(instance) == 0

\* count(instance, species_id, cell_id)
PCount(S, instance, species_id, cell_id) ==
    Count(S.ksys, SpeciesToPopId(S.n_species, species_id, cell_id),
          CountInstance(instance))

\* counts(instance)
PCounts(S, instance) == S.ksys.pop_count[instance]

\* A firing that applies the event's process twice
FireTwice(S, instance) ==
    LET st == S.states[instance]
        W1 == Apply(Observe(S, instance), st.next_k_id, instance, TRUE)
        W2 == Apply(W1, st.next_k_id, instance, TRUE)
    IN [Observed(S, instance, W2) EXCEPT
            !.states[instance].t = st.t + st.next_dt,
            !.states[instance].stale = TRUE]

\* The firing of the cached event in advance: ksys.apply(next_k_id, update,
\* instance); state.t += state.next_dt; state.stale = true
Fire(S, instance) ==
    LET st == S.states[instance]
        W == Apply(Observe(S, instance), st.next_k_id, instance, TRUE)
    IN [Observed(S, instance, W) EXCEPT
            !.states[instance].t = st.t + st.next_dt,
            !.states[instance].stale = TRUE]

\* advance(instance, g): [S, g, threw, ret, fired].  fired lists the events
\* applied by the call, each [k, dt, at, g]: the process, the waiting time held
\* when it fired, the time it fired at, and the generator's state when it fired.
PAdvance(S, g, instance) ==
    LET nx == GetNext(S.states[instance], g)
        S1 == [S EXCEPT !.states[instance] = nx.st]
        S2 == Fire(S1, instance)
    IN IF nx.threw
       THEN [S |-> S, g |-> nx.g, threw |-> TRUE, ret |-> 0, fired |-> <<>>]
       ELSE [S |-> S2, g |-> nx.g, threw |-> FALSE,
             ret |-> S2.states[instance].t,
             fired |-> <<[k |-> nx.st.next_k_id, dt |-> nx.st.next_dt,
                          at |-> S2.states[instance].t, g |-> nx.g]>>]

\* advance(instance, t_end, g): the loop, from S with generator g and the
\* events fired so far; fuel bounds the events the model follows.
\* [S, g, threw, ret, fired, done, polled, drawn_at]: done is FALSE when fuel
\* ran out first; polled says whether the event left cached at the break was
\* polled from the selector by this call, drawn_at is the time it is to fire
\* at, as held by get_next's result before the waiting time is adjusted.
RECURSIVE AdvanceLoop(_, _, _, _, _, _)
AdvanceLoop(S, g, instance, t_end, fired, fuel) ==
    LET nx == GetNext(S.states[instance], g)
        S1 == [S EXCEPT !.states[instance] = nx.st]
        st == nx.st
        S2 == Fire(S1, instance)
    IN IF nx.threw
       THEN [S |-> S, g |-> nx.g, threw |-> TRUE, ret |-> 0,
             fired |-> fired, done |-> TRUE, polled |-> FALSE, drawn_at |-> 0]
       ELSE IF st.t + st.next_dt > t_end
       THEN [S |-> [S1 EXCEPT !.states[instance].next_dt = st.next_dt - (t_end - st.t),
                              !.states[instance].t = t_end],
             g |-> nx.g, threw |-> FALSE, ret |-> t_end,
             fired |-> fired, done |-> TRUE,
             polled |-> S.states[instance].stale, drawn_at |-> st.t + st.next_dt]
       ELSE IF fuel = 0
       THEN [S |-> S1, g |-> nx.g, threw |-> FALSE, ret |-> 0,
             fired |-> fired, done |-> FALSE, polled |-> FALSE, drawn_at |-> 0]
       ELSE AdvanceLoop(S2, nx.g, instance, t_end,
                        Append(fired, [k |-> st.next_k_id, dt |-> st.next_dt,
                                       at |-> S2.states[instance].t, g |-> nx.g]),
                        fuel - 1)

\* An advance that takes the selector's error as the end of the events and
\* moves the instance's time to t_end
AdvanceToEndOnError(S, g, instance, t_end) ==
    LET r == AdvanceLoop(S, g, instance, t_end, <<>>, MaxFire)
    IN IF r.threw
       THEN [r EXCEPT !.threw = FALSE, !.ret = t_end,
                      !.S.states[instance].t = t_end]
       ELSE r

PAdvanceTo(S, g, instance, t_end) == AdvanceLoop(S, g, instance, t_end, <<>>, MaxFire)

\* ------------------------------------------------------------------------
\* The models the engine is built from
\* ------------------------------------------------------------------------

\* One cell; A + A -> nothing, rate 1; A starts at 4.
Mdimer ==
    [species |-> <<[diffusivity |-> 0, conc10 |-> 40]>>,
     reactions |-> <<[left |-> <<0, 0>>, right |-> <<>>, rate |-> 1]>>,
     cells |-> <<[volume |-> 1, neighbours |-> <<>>]>>]

\* One cell; A -> nothing, rate 1; A starts at 1.
Mdecay ==
    [species |-> <<[diffusivity |-> 0, conc10 |-> 10]>>,
     reactions |-> <<[left |-> <<0>>, right |-> <<>>, rate |-> 1]>>,
     cells |-> <<[volume |-> 1, neighbours |-> <<>>]>>]

\* Two cells that are neighbours of each other; A diffuses, B does not;
\* A -> B, rate 2; A starts at 1 in each cell, B at 0.
Mdiff ==
    [species |-> <<[diffusivity |-> 1, conc10 |-> 10],
                   [diffusivity |-> 0, conc10 |-> 0]>>,
     reactions |-> <<[left |-> <<0>>, right |-> <<1>>, rate |-> 2]>>,
     cells |-> <<[volume |-> 1, neighbours |-> <<[cell_id |-> 1, diff_coef |-> 1]>>],
                 [volume |-> 1, neighbours |-> <<[cell_id |-> 0, diff_coef |-> 1]>>]>>]

\* One cell; A + A -> nothing, rate 10, and A -> nothing, rate 29; A starts
\* at 0.
Mmixed ==
    [species |-> <<[diffusivity |-> 0, conc10 |-> 0]>>,
     reactions |-> <<[left |-> <<0, 0>>, right |-> <<>>, rate |-> 10],
                     [left |-> <<0>>, right |-> <<>>, rate |-> 29]>>,
     cells |-> <<[volume |-> 1, neighbours |-> <<>>]>>]

\* initialise(n_instances, M, t0) as called by the driver
Scenarios ==
    { [M |-> Mdimer, n_instances |-> 1, t0 |-> 0],
      [M |-> Mmixed, n_instances |-> 1, t0 |-> 0],
      [M |-> Mdecay, n_instances |-> 2, t0 |-> 0],
      [M |-> Mdiff, n_instances |-> 1, t0 |-> 3] }

\* Increments t_end - t of the advance(instance, t_end, rng) calls
TEndSteps == {2, TScale}

\* ------------------------------------------------------------------------
\* The state machine of one engine and its callers
\*
\* scen  the arguments of initialise
\* sim   the parallel_ssa object
\* ipc   ipc[i]: the statements of initialise's parallel loop body that the
\*       thread of instance i has run
\* rng   rng[i]: the state of the generator the driver of instance i passes
\* nops  calls made after initialise
\* last  the last call: its arguments, the engine and generator before it,
\*       and what it returned
\* pend  pend[i]: the event an advance(i, t_end, rng) call polled and left
\*       cached, with the time it was drawn to fire at, while it is neither
\*       fired nor invalidated by set_count
\* twin  a second engine with its callers' generators (second specification)
\* solo  solo[i]: the engine and generator of instance i run alone, that is
\*       the engine as initialise left it, on which only the calls made for
\*       instance i are made; lost: the model stopped following it (third
\*       specification)
\* selector, written  a selector driven on its own and the value last
\*       written for each of its keys (fourth specification); the selector
\*       of the sixth specification
\* procsys  a process system driven on its own (fifth specification)
\* categorical  a categorical distribution (seventh specification)
\* ------------------------------------------------------------------------

Instances(sc) == 0..(sc.n_instances - 1)

\* Statements in one thread's loop body: the start, one set_count per
\* population, one selector update per process
InitSteps(E) == 1 + E.n_pop + E.ksys.n_proc

InitDone(E, pcs) == \A i \in DOMAIN pcs : pcs[i] = InitSteps(E)

\* The next statement of initialise's loop body for instance i
InitialiseStep(E, sc, i, pos) ==
    IF pos = 0 THEN InitialiseStart(E, i, sc.t0)
    ELSE IF pos <= E.n_pop THEN InitialiseSetCount(E, sc.M, i, pos - 1)
    ELSE InitialisePrime(E, i, pos - 1 - E.n_pop)

NoCall == [op |-> "none"]

NoPending == [valid |-> FALSE, k |-> 0, at |-> 0]

\* Values of the variables a specification does not use
NoEngine == <<>>

NoSolo == <<>>

NoSelector == SelReset(0)

\* The simulator's variables in a specification that does not use them
EngineIdle ==
    /\ scen = NoEngine /\ sim = NoEngine /\ ipc = NoEngine /\ rng = NoEngine
    /\ pend = NoEngine /\ solo = NoSolo /\ twin = NoEngine
    /\ selector = NoSelector /\ written = VEmpty
    /\ procsys = NoEngine /\ categorical = NoEngine

\* The variables of the components driven apart, in a specification that
\* does not use them
ApartIdle ==
    /\ sampler = NoEngine /\ bins = NoEngine /\ collection = NoEngine
    /\ loaded = NoEngine /\ guarded = NoEngine /\ msets = NoEngine
    /\ driver = NoEngine

\* The generators the drivers of the instances start from
Seeded(sc, seed) == [i \in Instances(sc) |-> (seed + 5 * i) % RngMod]

\* Every instance's solo run starts from the engine E and the generators gs
SoloStart(sc, E, gs) ==
    [i \in Instances(sc) |-> [S |-> E, g |-> gs[i], lost |-> FALSE]]

Init ==
    /\ scen \in Scenarios
    /\ sim = InitialiseTables(scen.n_instances, scen.M)
    /\ ipc = [i \in Instances(scen) |-> 0]
    /\ \E seed \in 0..(RngMod - 1) : rng = Seeded(scen, seed)
    /\ nops = 0
    /\ last = NoCall
    /\ pend = [i \in Instances(scen) |-> NoPending]
    /\ solo = NoSolo
    /\ twin = NoEngine
    /\ selector = NoSelector
    /\ written = VEmpty
    /\ procsys = NoEngine /\ categorical = NoEngine
    /\ ApartIdle

\* One statement of the parallel loop of initialise, run by the thread of
\* instance i (#pragma omp parallel for)
InitialiseStepAct(i) ==
    /\ ipc[i] < InitSteps(sim)
    /\ sim' = InitialiseStep(sim, scen, i, ipc[i])
    /\ ipc' = [ipc EXCEPT ![i] = @ + 1]
    /\ last' = IF InitDone(sim', ipc') THEN [op |-> "initialise"] ELSE last
    /\ UNCHANGED <<apart, procsys, categorical, scen, rng, nops, pend, solo, twin, selector, written>>

CanCall == InitDone(sim, ipc) /\ nops < MaxOps

SetCountCall(i, s, c, n) ==
    /\ CanCall
    /\ sim' = PSetCount(sim, i, s, c, n)
    /\ nops' = nops + 1
    /\ last' = [op |-> "set_count", instance |-> i, species |-> s, cell |-> c,
                n |-> n, pre |-> sim, preg |-> rng[i], pend |-> pend[i]]
    /\ pend' = [pend EXCEPT ![i] = NoPending]
    /\ UNCHANGED <<apart, procsys, categorical, scen, ipc, rng, solo, twin, selector, written>>

AdvanceCall(i) ==
    /\ CanCall
    /\ LET r == PAdvance(sim, rng[i], i)
       IN /\ sim' = r.S
          /\ rng' = [rng EXCEPT ![i] = r.g]
          /\ last' = [op |-> "advance", instance |-> i, pre |-> sim, preg |-> rng[i],
                      pend |-> pend[i],
                      threw |-> r.threw, ret |-> r.ret, fired |-> r.fired]
          /\ pend' = [pend EXCEPT ![i] = NoPending]
    /\ nops' = nops + 1
    /\ UNCHANGED <<apart, procsys, categorical, scen, ipc, solo, twin, selector, written>>

AdvanceToCall(i, t_end) ==
    /\ CanCall
    /\ LET r == PAdvanceTo(sim, rng[i], i, t_end)
       IN /\ r.done
          /\ sim' = r.S
          /\ rng' = [rng EXCEPT ![i] = r.g]
          /\ last' = [op |-> "advance_to", instance |-> i, t_end |-> t_end,
                      pre |-> sim, preg |-> rng[i], pend |-> pend[i],
                      threw |-> r.threw, ret |-> r.ret, fired |-> r.fired]
          /\ pend' = [pend EXCEPT ![i] =
                        IF r.threw THEN NoPending
                        ELSE IF r.polled
                        THEN [valid |-> TRUE, k |-> r.S.states[i].next_k_id,
                              at |-> r.drawn_at]
                        ELSE @]
    /\ nops' = nops + 1
    /\ UNCHANGED <<apart, procsys, categorical, scen, ipc, solo, twin, selector, written>>

Next ==
    \/ \E i \in Instances(scen) : InitialiseStepAct(i)
    \/ \E i \in Instances(scen), s \in 0..(sim.n_species - 1),
          c \in 0..(sim.n_cell - 1), n \in 0..MaxCount : SetCountCall(i, s, c, n)
    \/ \E i \in Instances(scen) : AdvanceCall(i)
    \/ \E i \in Instances(scen), d \in TEndSteps :
          AdvanceToCall(i, sim.states[i].t + d)

Spec == Init /\ [][Next]_vars

\* ------------------------------------------------------------------------
\* Second specification: two engines initialised from the same arguments,
\* whose callers' generators start alike and make the same advance calls.
\* twin is the second engine: [sim, ipc, rng, fired].
\* ------------------------------------------------------------------------

InitPair ==
    /\ scen \in Scenarios
    /\ sim = InitialiseTables(scen.n_instances, scen.M)
    /\ ipc = [i \in Instances(scen) |-> 0]
    /\ \E seed \in 0..(RngMod - 1) : rng = Seeded(scen, seed)
    /\ nops = 0
    /\ last = NoCall
    /\ pend = [i \in Instances(scen) |-> NoPending]
    /\ solo = NoSolo
    /\ twin = [sim |-> sim, ipc |-> ipc, rng |-> rng, fired |-> <<>>]
    /\ selector = NoSelector
    /\ written = VEmpty
    /\ procsys = NoEngine /\ categorical = NoEngine
    /\ ApartIdle

\* One statement of initialise's parallel loop in the first engine
PairInitialiseStepAct(i) ==
    /\ ipc[i] < InitSteps(sim)
    /\ sim' = InitialiseStep(sim, scen, i, ipc[i])
    /\ ipc' = [ipc EXCEPT ![i] = @ + 1]
    /\ UNCHANGED <<apart, procsys, categorical, scen, rng, nops, last, pend, solo, twin, selector, written>>

\* One statement of initialise's parallel loop in the second engine
TwinInitialiseStepAct(i) ==
    /\ twin.ipc[i] < InitSteps(twin.sim)
    /\ twin' = [twin EXCEPT !.sim = InitialiseStep(@, scen, i, twin.ipc[i]),
                            !.ipc[i] = @ + 1]
    /\ UNCHANGED <<apart, procsys, categorical, scen, sim, ipc, rng, nops, last, pend, solo, selector, written>>

PairCanCall ==
    /\ InitDone(sim, ipc)
    /\ InitDone(twin.sim, twin.ipc)
    /\ nops < MaxOps

\* advance(i, rng) on both engines
PairAdvanceCall(i) ==
    /\ PairCanCall
    /\ LET r == PAdvance(sim, rng[i], i)
           a == PAdvance(twin.sim, twin.rng[i], i)
       IN /\ sim' = r.S
          /\ rng' = [rng EXCEPT ![i] = r.g]
          /\ last' = [op |-> "advance", instance |-> i, pre |-> sim, preg |-> rng[i],
                      pend |-> pend[i],
                      threw |-> r.threw, ret |-> r.ret, fired |-> r.fired]
          /\ twin' = [twin EXCEPT !.sim = a.S, !.rng[i] = a.g, !.fired = a.fired]
    /\ nops' = nops + 1
    /\ UNCHANGED <<apart, procsys, categorical, scen, ipc, pend, solo, selector, written>>

\* advance(i, t_end, rng) on both engines
PairAdvanceToCall(i, t_end) ==
    /\ PairCanCall
    /\ LET r == PAdvanceTo(sim, rng[i], i, t_end)
           a == PAdvanceTo(twin.sim, twin.rng[i], i, t_end)
       IN /\ r.done /\ a.done
          /\ sim' = r.S
          /\ rng' = [rng EXCEPT ![i] = r.g]
          /\ last' = [op |-> "advance_to", instance |-> i, t_end |-> t_end,
                      pre |-> sim, preg |-> rng[i], pend |-> pend[i],
                      threw |-> r.threw, ret |-> r.ret, fired |-> r.fired]
          /\ twin' = [twin EXCEPT !.sim = a.S, !.rng[i] = a.g, !.fired = a.fired]
    /\ nops' = nops + 1
    /\ UNCHANGED <<apart, procsys, categorical, scen, ipc, pend, solo, selector, written>>

NextPair ==
    \/ \E i \in Instances(scen) : PairInitialiseStepAct(i)
    \/ \E i \in Instances(scen) : TwinInitialiseStepAct(i)
    \/ \E i \in Instances(scen) : PairAdvanceCall(i)
    \/ \E i \in Instances(scen), d \in TEndSteps :
          PairAdvanceToCall(i, sim.states[i].t + d)

SpecPair == InitPair /\ [][NextPair]_vars

\* ------------------------------------------------------------------------
\* Third specification: one engine whose callers make advance calls for the
\* instances in any order, and beside it every instance run alone.
\* ------------------------------------------------------------------------

InitSolo ==
    /\ scen \in Scenarios
    /\ sim = InitialiseTables(scen.n_instances, scen.M)
    /\ ipc = [i \in Instances(scen) |-> 0]
    /\ \E seed \in 0..(RngMod - 1) : rng = Seeded(scen, seed)
    /\ nops = 0
    /\ last = NoCall
    /\ pend = [i \in Instances(scen) |-> NoPending]
    /\ solo = SoloStart(scen, sim, rng)
    /\ twin = NoEngine
    /\ selector = NoSelector
    /\ written = VEmpty
    /\ procsys = NoEngine /\ categorical = NoEngine
    /\ ApartIdle

\* One statement of initialise's parallel loop; the solo runs start from the
\* engine initialise leaves
SoloInitialiseStepAct(i) ==
    /\ ipc[i] < InitSteps(sim)
    /\ sim' = InitialiseStep(sim, scen, i, ipc[i])
    /\ ipc' = [ipc EXCEPT ![i] = @ + 1]
    /\ solo' = SoloStart(scen, sim', rng)
    /\ UNCHANGED <<apart, procsys, categorical, scen, rng, nops, last, pend, twin, selector, written>>

\* advance(i, rng) on the engine and on the solo run of instance i
SoloAdvanceCall(i) ==
    /\ CanCall
    /\ LET r == PAdvance(sim, rng[i], i)
           a == PAdvance(solo[i].S, solo[i].g, i)
       IN /\ sim' = r.S
          /\ rng' = [rng EXCEPT ![i] = r.g]
          /\ last' = [op |-> "advance", instance |-> i, pre |-> sim, preg |-> rng[i],
                      pend |-> pend[i],
                      threw |-> r.threw, ret |-> r.ret, fired |-> r.fired]
          /\ solo' = [solo EXCEPT ![i].S = a.S, ![i].g = a.g]
    /\ nops' = nops + 1
    /\ UNCHANGED <<apart, procsys, categorical, scen, ipc, pend, twin, selector, written>>

\* advance(i, t_end, rng) on the engine and on the solo run of instance i
SoloAdvanceToCall(i, t_end) ==
    /\ CanCall
    /\ LET r == PAdvanceTo(sim, rng[i], i, t_end)
           a == PAdvanceTo(solo[i].S, solo[i].g, i, t_end)
       IN /\ r.done
          /\ sim' = r.S
          /\ rng' = [rng EXCEPT ![i] = r.g]
          /\ last' = [op |-> "advance_to", instance |-> i, t_end |-> t_end,
                      pre |-> sim, preg |-> rng[i], pend |-> pend[i],
                      threw |-> r.threw, ret |-> r.ret, fired |-> r.fired]
          /\ solo' = [solo EXCEPT ![i].S = a.S, ![i].g = a.g,
                                  ![i].lost = @ \/ ~a.done]
    /\ nops' = nops + 1
    /\ UNCHANGED <<apart, procsys, categorical, scen, ipc, pend, twin, selector, written>>

NextSolo ==
    \/ \E i \in Instances(scen) : SoloInitialiseStepAct(i)
    \/ \E i \in Instances(scen) : SoloAdvanceCall(i)
    \/ \E i \in Instances(scen), d \in TEndSteps :
          SoloAdvanceToCall(i, sim.states[i].t + d)

SpecSolo == InitSolo /\ [][NextSolo]_vars

\* ------------------------------------------------------------------------
\* Fourth specification: an ssa_direct selector driven on its own.
\* ------------------------------------------------------------------------

\* explicit ssa_direct(size_t n_key_ = 0): reset(n_key_)
InitSel ==
    /\ selector = SelReset(0)
    /\ written = VEmpty
    /\ procsys = NoEngine /\ categorical = NoEngine
    /\ ApartIdle
    /\ last = NoCall
    /\ scen = NoEngine /\ sim = NoEngine /\ ipc = NoEngine /\ rng = NoEngine
    /\ nops = 0
    /\ pend = NoEngine /\ solo = NoSolo /\ twin = NoEngine

\* reset(n)
SelResetCall(n) ==
    /\ selector' = SelReset(n)
    /\ written' = VFill(n, 0)
    /\ last' = [op |-> "reset", n |-> n]
    /\ UNCHANGED <<apart, procsys, categorical, scen, sim, ipc, rng, nops, pend, solo, twin>>

\* update(k, r)
SelUpdateCall(k, r) ==
    /\ k < selector.n_key
    /\ selector' = SelUpdate(selector, k, r)
    /\ written' = [written EXCEPT ![k] = r]
    /\ last' = [op |-> "update", k |-> k, r |-> r, old |-> selector.propensities[k]]
    /\ UNCHANGED <<apart, procsys, categorical, scen, sim, ipc, rng, nops, pend, solo, twin>>

\* inverse_cdf(un/UDen): returns a key or throws ssa_error; the selector is
\* not changed
SelInverseCdfCall(un) ==
    /\ last' = [op |-> "inverse_cdf", un |-> un,
                threw |-> InverseCdfThrows(selector, un),
                k |-> InverseCdf(selector, un)]
    /\ UNCHANGED <<apart, procsys, categorical, scen, sim, ipc, rng, nops, pend, solo, twin,
                   selector, written>>

NextSel ==
    \/ \E n \in 0..MaxKeys : SelResetCall(n)
    \/ \E k \in 0..(MaxKeys - 1), r \in 0..MaxProp : SelUpdateCall(k, r)
    \/ \E un \in 0..(UDen - 1) : SelInverseCdfCall(un)

SpecSel == InitSel /\ [][NextSel]_vars

\* ------------------------------------------------------------------------
\* Sixth specification: an ssa_direct selector with two keys whose
\* propensities reach the precision of value_type, driven by update and next.
\* ------------------------------------------------------------------------

\* The propensities passed to update
DriftValues == {0, 3, Pow2(MantBits)}

\* ssa_direct(2), and a generator in any of its states
InitDrift ==
    /\ selector = SelReset(2)
    /\ rng \in 0..(RngMod - 1)
    /\ last = NoCall
    /\ nops = 0
    /\ written = VEmpty
    /\ procsys = NoEngine /\ categorical = NoEngine
    /\ ApartIdle
    /\ scen = NoEngine /\ sim = NoEngine /\ ipc = NoEngine
    /\ pend = NoEngine /\ solo = NoSolo /\ twin = NoEngine

\* update(k, r)
DriftUpdateCall(k, r) ==
    /\ nops < MaxDriftOps
    /\ k < selector.n_key
    /\ selector' = SelUpdate(selector, k, r)
    /\ last' = [op |-> "update", k |-> k, r |-> r, threw |-> FALSE]
    /\ nops' = nops + 1
    /\ UNCHANGED <<apart, procsys, categorical, scen, sim, ipc, rng, pend, solo, twin, written>>

\* next(g): an event, or ssa_error with the uniform draw consumed; the
\* selector is not changed
DriftNextCall ==
    /\ nops < MaxDriftOps
    /\ LET e == SelNext(selector, rng)
       IN /\ rng' = e.g
          /\ last' = [op |-> "next", threw |-> e.threw, k |-> e.k, dt |-> e.dt,
                      prev |-> [op |-> last.op,
                                threw |-> last.op = "next" /\ last.threw]]
    /\ nops' = nops + 1
    /\ UNCHANGED <<apart, procsys, categorical, scen, sim, ipc, pend, solo, twin, selector, written>>

NextDrift ==
    \/ \E k \in 0..1, r \in DriftValues : DriftUpdateCall(k, r)
    \/ DriftNextCall

SpecDrift == InitDrift /\ [][NextDrift]_vars

\* ------------------------------------------------------------------------
\* Fifth specification: an ssa_pp_procsys with one instance driven on its
\* own: processes are added, then set_count and apply are called with an
\* observer that records the keys it is called with.
\*
\* procsys = [sys, notified, descs, failed, broken]: the process system, the
\* keys the observer was called with during the last call, the descriptors
\* passed to add with the key each was given, whether an add has been made
\* that did not complete, and whether undefined behaviour has occurred (the
\* model follows the system no further).
\* ------------------------------------------------------------------------

\* Process descriptors over the populations A = 0, B = 1, C = 2
SysDescriptors ==
    { [left |-> <<0>>, right |-> <<1>>, rate |-> 1],
      [left |-> <<1>>, right |-> <<0>>, rate |-> 1],
      [left |-> <<0, 0>>, right |-> <<1>>, rate |-> 1],
      [left |-> <<1>>, right |-> <<0, 0>>, rate |-> 1],
      [left |-> <<1, 0>>, right |-> <<0, 2>>, rate |-> 1],
      [left |-> <<1, 0, 1>>, right |-> <<>>, rate |-> 1],
      [left |-> <<0, 1, 0, 1>>, right |-> <<>>, rate |-> 1],
      [left |-> <<0, 0, 0, 0, 0>>, right |-> <<>>, rate |-> 1] }

\* The W of a call on the process system with the recording observer
SysObserve(sys) == [sys |-> sys, sel |-> NoSelector, notified |-> <<>>]

\* What the next call keeps of the call before it
Short(call) ==
    IF call.op = "apply" THEN [op |-> "apply", k |-> call.k, pre |-> call.pre]
    ELSE [op |-> call.op]

\* explicit ssa_pp_procsys(size_t n_instance_ = 1)
InitSys ==
    /\ procsys = [sys |-> ProcsysNew(1), notified |-> <<>>, descs |-> <<>>,
                  failed |-> FALSE, broken |-> FALSE]
    /\ last = NoCall
    /\ nops = 0
    /\ scen = NoEngine /\ sim = NoEngine /\ ipc = NoEngine /\ rng = NoEngine
    /\ pend = NoEngine /\ solo = NoSolo /\ twin = NoEngine
    /\ selector = NoSelector /\ written = VEmpty
    /\ categorical = NoEngine
    /\ ApartIdle

\* add(q).  With more than MaxOrder + 1 reactants the call throws
\* invalid_value after key = n_proc++.  With exactly MaxOrder + 1 reactants
\* the test nleft > max_process_order lets the last reactant through and
\* left_sorted[MaxOrder] is written past the end of the array: undefined
\* behaviour, of which the model keeps two outcomes, the call going on as if
\* the arrays had room ("stored") and the call not returning ("crashed").
\* (The model makes no add after the first set_count or apply.)
SysAddCall(q) ==
    /\ ~procsys.broken
    /\ nops = 0
    /\ procsys.sys.n_proc < MaxProcs
    /\ \/ /\ AddThrows(q)
          /\ procsys' = [procsys EXCEPT !.sys.n_proc = @ + 1, !.failed = TRUE,
                                        !.notified = <<>>]
          /\ last' = [op |-> "add", q |-> q, outcome |-> "invalid_value",
                      pre |-> procsys.sys]
       \/ /\ Len(q.left) = MaxOrder + 1
          /\ \E outcome \in {"stored", "crashed"} :
                /\ procsys' = [procsys EXCEPT
                                  !.sys = IF outcome = "stored" THEN Add(@, q) ELSE @,
                                  !.broken = TRUE, !.notified = <<>>]
                /\ last' = [op |-> "add", q |-> q, outcome |-> outcome,
                            pre |-> procsys.sys]
       \/ /\ Len(q.left) <= MaxOrder
          /\ procsys' = [procsys EXCEPT
                            !.sys = Add(@, q),
                            !.descs = Append(@, [key |-> procsys.sys.n_proc, q |-> q]),
                            !.notified = <<>>]
          /\ last' = [op |-> "add", q |-> q, outcome |-> "ok", pre |-> procsys.sys]
    /\ UNCHANGED <<apart, scen, sim, ipc, rng, nops, pend, solo, twin, selector, written,
                   categorical>>

\* Every key held in pop_to_pc_tbl is an index of the per-process tables.
\* (After an add that threw, the key of a later process is one more than the
\* index at which its tables were pushed; set_count and apply then index
\* propensity_tbl out of range, and the model does not follow them.)
KeysInTables(sys) ==
    \A p \in DOMAIN sys.pop_to_pc_tbl : \A e \in DOMAIN sys.pop_to_pc_tbl[p] :
        sys.pop_to_pc_tbl[p][e].k < VSize(sys.rate)

\* set_count(p, c, update_notify, 0)
SysSetCountCall(p, c) ==
    /\ ~procsys.broken /\ KeysInTables(procsys.sys)
    /\ nops < MaxSysOps
    /\ p < procsys.sys.n_pop
    /\ LET W == SetCount(SysObserve(procsys.sys), p, c, 0, FALSE)
       IN procsys' = [procsys EXCEPT !.sys = W.sys, !.notified = W.notified]
    /\ last' = [op |-> "set_count", p |-> p, c |-> c, pre |-> procsys.sys,
                prev |-> Short(last)]
    /\ nops' = nops + 1
    /\ UNCHANGED <<apart, scen, sim, ipc, rng, pend, solo, twin, selector, written,
                   categorical>>

\* apply(k, update_notify, 0)
SysApplyCall(k) ==
    /\ ~procsys.broken /\ KeysInTables(procsys.sys)
    /\ nops < MaxSysOps
    /\ k < VSize(procsys.sys.proc_delta_tbl)
    /\ LET W == Apply(SysObserve(procsys.sys), k, 0, FALSE)
       IN procsys' = [procsys EXCEPT !.sys = W.sys, !.notified = W.notified]
    /\ last' = [op |-> "apply", k |-> k, pre |-> procsys.sys, prev |-> Short(last)]
    /\ nops' = nops + 1
    /\ UNCHANGED <<apart, scen, sim, ipc, rng, pend, solo, twin, selector, written,
                   categorical>>

\* A reset that zeroes the counts and leaves the factor slots alone
RECURSIVE ResetCountsOnly(_, _, _)
ResetCountsOnly(sys, j, p) ==
    IF j >= sys.n_instance THEN sys
    ELSE IF p >= sys.n_pop THEN ResetCountsOnly(sys, j + 1, 0)
    ELSE ResetCountsOnly([sys EXCEPT !.pop_count[j][p] = 0], j, p + 1)

\* reset(), from instance j and population p on: set_count(p, 0, j) for
\* every population of every instance (the threads of the parallel loop
\* write disjoint rows, so their order does not matter)
RECURSIVE ResetLoop(_, _, _)
ResetLoop(sys, j, p) ==
    IF j >= sys.n_instance THEN sys
    ELSE IF p >= sys.n_pop THEN ResetLoop(sys, j + 1, 0)
    ELSE ResetLoop(SetCount(SysObserve(sys), p, 0, j, FALSE).sys, j, p + 1)

\* reset()
SysResetCall ==
    /\ ~procsys.broken /\ KeysInTables(procsys.sys)
    /\ nops > 0 /\ nops < MaxSysOps
    /\ procsys' = [procsys EXCEPT !.sys = ResetLoop(@, 0, 0), !.notified = <<>>]
    /\ last' = [op |-> "reset", pre |-> procsys.sys, prev |-> Short(last)]
    /\ nops' = nops + 1
    /\ UNCHANGED <<apart, scen, sim, ipc, rng, pend, solo, twin, selector, written,
                   categorical>>

NextSys ==
    \/ \E q \in SysDescriptors : SysAddCall(q)
    \/ \E p \in 0..2, c \in 0..MaxCount : SysSetCountCall(p, c)
    \/ \E k \in 0..(MaxProcs - 1) : SysApplyCall(k)
    \/ SysResetCall

SpecSys == InitSys /\ [][NextSys]_vars

\* ------------------------------------------------------------------------
\* categorical_distribution: the alias method, in exact arithmetic
\*
\* A real_type value is a fraction n/den over the denominator den the table
\* was normalised with, or one of the IEEE values the division by a zero sum
\* produces: [k |-> "fin", n |-> n], or k one of "nan", "pinf", "ninf".
\* ------------------------------------------------------------------------

Fin(n) == [k |-> "fin", n |-> n]

NaN == [k |-> "nan", n |-> 0]

PInf == [k |-> "pinf", n |-> 0]

NInf == [k |-> "ninf", n |-> 0]

\* v <= 1 (false for NaN)
LeOne(v, den) ==
    IF v.k = "fin" THEN v.n <= den ELSE v.k = "ninf"

\* a + b, without the 1 taken off
PlusOnly(a, b, den) ==
    IF a.k = "fin" /\ b.k = "fin" THEN Fin(a.n + b.n) ELSE NaN

\* (a + b) - 1
PlusMinusOne(a, b, den) ==
    IF a.k = "fin" /\ b.k = "fin" THEN Fin(a.n + b.n - den)
    ELSE IF a.k = "nan" \/ b.k = "nan" THEN NaN
    ELSE IF a.k = "fin" THEN b
    ELSE IF b.k = "fin" THEN a
    ELSE IF a.k = b.k THEN a
    ELSE NaN

\* The denominator of the normalised q values: |sum|, or 1 when the sum is 0
Denominator(w) ==
    LET sum == SeqSum(w)
    IN IF sum > 0 THEN sum ELSE IF sum < 0 THEN 0 - sum ELSE 1

\* tbl(b, e) and the normalisation: q(i) *= n/sum, alias(i) = 0.  With a zero
\* sum the scale is +infinity and q(i) is +infinity, -infinity or NaN
\* according to the sign of the weight.
Normalised(w) ==
    LET n == Len(w)
        sum == SeqSum(w)
    IN [i \in 0..(n - 1) |->
          [q |-> IF sum > 0 THEN Fin(n * w[i + 1])
                 ELSE IF sum < 0 THEN Fin(0 - n * w[i + 1])
                 ELSE IF w[i + 1] > 0 THEN PInf
                 ELSE IF w[i + 1] < 0 THEN NInf
                 ELSE NaN,
           alias |-> 0]]

\* while (i < n && !(q(i) <= 1)) ++i
RECURSIVE NextSmall(_, _, _)
NextSmall(tbl, i, den) ==
    IF i < VSize(tbl) /\ ~LeOne(tbl[i].q, den) THEN NextSmall(tbl, i + 1, den) ELSE i

\* while (i < n && q(i) <= 1) ++i
RECURSIVE NextBig(_, _, _)
NextBig(tbl, i, den) ==
    IF i < VSize(tbl) /\ LeOne(tbl[i].q, den) THEN NextBig(tbl, i + 1, den) ELSE i

\* The loop that builds the alias table; T = [tbl, i_small, i_big, i_small_top]
RECURSIVE AliasLoop(_, _)
AliasLoop(T, den) ==
    IF ~(T.i_small < VSize(T.tbl) /\ T.i_big < VSize(T.tbl)) THEN T
    ELSE LET q_big == PlusMinusOne(T.tbl[T.i_big].q, T.tbl[T.i_small].q, den)
             tbl1 == [[T.tbl EXCEPT ![T.i_small].alias = T.i_big]
                         EXCEPT ![T.i_big].q = q_big]
             new_small == LeOne(q_big, den)
             behind == new_small /\ T.i_big < T.i_small_top
             i_small1 == IF behind THEN T.i_big
                         ELSE NextSmall(tbl1, T.i_small_top + 1, den)
         IN AliasLoop([tbl |-> tbl1,
                       i_small |-> i_small1,
                       i_big |-> IF new_small THEN NextBig(tbl1, T.i_big, den)
                                 ELSE T.i_big,
                       i_small_top |-> IF behind THEN T.i_small_top ELSE i_small1],
                      den)

\* "anything left over should be given probability 1"
LeftOver(T, den) ==
    LET n == VSize(T.tbl)
    IN [i \in DOMAIN T.tbl |->
          IF \/ (T.i_small < n /\ (i = T.i_small \/ i > T.i_small_top))
             \/ i >= T.i_big
          THEN [T.tbl[i] EXCEPT !.q = Fin(den)]
          ELSE T.tbl[i]]

\* param_type(b, e): the table built from the weights w.  No test is made of
\* the weights or of their sum, and nothing is thrown.
ParamType(w) ==
    LET den == Denominator(w)
        tbl0 == Normalised(w)
        i_small == NextSmall(tbl0, 0, den)
    IN LeftOver(AliasLoop([tbl |-> tbl0, i_small |-> i_small,
                           i_big |-> NextBig(tbl0, 0, den),
                           i_small_top |-> i_small], den), den)

\* u < q for u = un/uden (false for NaN)
LessThanQ(un, uden, v, den) ==
    IF v.k = "fin" THEN un * den < v.n * uden ELSE v.k = "pinf"

\* operator()(g, p) for the draw d = bin + un/uden: u < p.q(bin) ? bin : p.alias(bin)
Draw(tbl, den, bin, un, uden) ==
    IF VSize(tbl) = 0 THEN 0
    ELSE IF LessThanQ(un, uden, tbl[bin].q, den) THEN bin ELSE tbl[bin].alias

\* ------------------------------------------------------------------------
\* Seventh specification: categorical distributions are constructed from
\* weight vectors and drawn from.
\*
\* categorical = [P, den, w]: the table of the distribution, the denominator
\* of its q values, and the weights it was constructed from.
\* ------------------------------------------------------------------------

\* The weight vectors: up to MaxLen weights from -1..MaxWeight
RECURSIVE WeightVectors(_)
WeightVectors(n) ==
    IF n = 0 THEN {<<>>}
    ELSE LET shorter == WeightVectors(n - 1)
         IN shorter \cup {Append(w, x) : w \in {v \in shorter : Len(v) = n - 1},
                                         x \in (0 - 1)..MaxWeight}

\* categorical_distribution() {}
InitCat ==
    /\ categorical = [P |-> VEmpty, den |-> 1, w |-> <<>>]
    /\ last = NoCall
    /\ nops = 0
    /\ procsys = NoEngine
    /\ scen = NoEngine /\ sim = NoEngine /\ ipc = NoEngine /\ rng = NoEngine
    /\ pend = NoEngine /\ solo = NoSolo /\ twin = NoEngine
    /\ selector = NoSelector /\ written = VEmpty
    /\ ApartIdle

\* categorical_distribution(b, e).  (Distributions are objects independent of
\* each other; a behaviour constructs one and draws from it.)
CatConstructCall(w) ==
    /\ nops = 0
    /\ nops' = 1
    /\ categorical' = [P |-> ParamType(w), den |-> Denominator(w), w |-> w]
    /\ last' = [op |-> "construct", w |-> w, threw |-> "nothing"]
    /\ UNCHANGED <<apart, procsys, scen, sim, ipc, rng, pend, solo, twin, selector, written>>

\* operator()(g) with the draw d = bin + un/UDen from [0, n)
CatDrawCall(bin, un) ==
    /\ bin < Max(1, VSize(categorical.P))
    /\ last' = [op |-> "draw", bin |-> bin, un |-> un,
                k |-> Draw(categorical.P, categorical.den, bin, un, UDen)]
    /\ UNCHANGED <<apart, procsys, categorical, scen, sim, ipc, rng, nops, pend, solo, twin,
                   selector, written>>

NextCat ==
    \/ \E w \in WeightVectors(MaxLen) : CatConstructCall(w)
    \/ \E bin \in 0..(MaxLen - 1), un \in 0..(UDen - 1) : CatDrawCall(bin, un)

SpecCat == InitCat /\ [][NextCat]_vars

\* ------------------------------------------------------------------------
\* What the process descriptors say, independently of the engine's tables
\* ------------------------------------------------------------------------

\* The descriptor of process k
Desc(sc, k) == KpSet(sc.M)[k + 1]

RECURSIVE Occurrences(_, _)
Occurrences(s, x) ==
    IF s = <<>> THEN 0
    ELSE (IF Head(s) = x THEN 1 ELSE 0) + Occurrences(Tail(s), x)

\* The net change of population p when the process q fires
NetChange(q, p) == Occurrences(q.right, p) - Occurrences(q.left, p)

\* The product over the reactant slots i of max(0, count[p_i] - r_i), with
\* p_1 <= p_2 <= ... the sorted reactants and r_i the number of earlier slots
\* holding the same population
RECURSIVE FallingProduct(_, _, _)
FallingProduct(counts, sorted, i) ==
    IF i > Len(sorted) THEN 1
    ELSE LET p == sorted[i]
             r == Cardinality({x \in 1..(i-1) : sorted[x] = p})
         IN Max(0, counts[p] - r) * FallingProduct(counts, sorted, i + 1)

MassAction(sc, counts, k) ==
    Desc(sc, k).rate * FallingProduct(counts, SortAsc(Desc(sc, k).left), 1)

Procs(E) == 0..(E.ksys.n_proc - 1)

Pops(E) == 0..(E.ksys.n_pop - 1)

IsAdvance == last.op \in {"advance", "advance_to"}

Returned == IsAdvance /\ ~last.threw

\* ------------------------------------------------------------------------
\* C1
\* ------------------------------------------------------------------------

\* C1: with the processes installed and the populations set by set_count, in
\* every state reached by further set_count and apply calls, propensity(k, j)
\* is rate(k) times the product over k's reactant slots of
\* max(0, count[j][p_i] - r_i), for every instance j and process k.
C1_PropensityIsMassAction ==
    InitDone(sim, ipc) =>
        \A j \in Instances(scen), k \in Procs(sim) :
            Propensity(sim.ksys, k, j) = MassAction(scen, sim.ksys.pop_count[j], k)

\* ------------------------------------------------------------------------
\* C2
\* ------------------------------------------------------------------------

\* C2: once initialise has returned, and after every set_count or advance
\* call, the propensity held by instance j's selector for process k is the
\* process system's propensity of k for instance j.
C2_SelectorHoldsOwnPropensity ==
    InitDone(sim, ipc) =>
        \A j \in Instances(scen), k \in Procs(sim) :
            sim.states[j].ksel.propensities[k] = Propensity(sim.ksys, k, j)

\* ------------------------------------------------------------------------
\* C3
\* ------------------------------------------------------------------------

\* C3: after an advance call that applied an event, every population count of
\* every instance is at least zero.
C3_CountsNonNegative ==
    (IsAdvance /\ last.fired # <<>>) =>
        \A j \in Instances(scen), p \in Pops(sim) : Count(sim.ksys, p, j) >= 0

\* ------------------------------------------------------------------------
\* C5
\* ------------------------------------------------------------------------

\* The counts of instance j after the events of fired are applied to counts
RECURSIVE AfterEvents(_, _, _)
AfterEvents(sc, counts, fired) ==
    IF fired = <<>> THEN counts
    ELSE AfterEvents(sc,
            [p \in DOMAIN counts |-> counts[p] + NetChange(Desc(sc, Head(fired).k), p)],
            Tail(fired))

\* C5: when advance(instance, t_end, rng) with t_end >= t[instance] returns,
\* the events it applied fired at times <= t_end and in increasing order of
\* firing time: each fired at the time of the one before it (the instance's
\* time at the call, for the first) plus its waiting time, which is not
\* negative; the counts are those the applied events give; the event left
\* unapplied fires after t_end; t[instance] is t_end and t_end is returned.
C5_AdvanceToFiresEventsUpToTEnd ==
    (last.op = "advance_to" /\ ~last.threw) =>
        LET i == last.instance
            f == last.fired
            st == sim.states[i]
        IN /\ last.t_end >= last.pre.states[i].t
           /\ \A n \in 1..Len(f) :
                 /\ f[n].at <= last.t_end
                 /\ f[n].dt >= 0
                 /\ f[n].at = f[n].dt + (IF n = 1 THEN last.pre.states[i].t
                                         ELSE f[n-1].at)
           /\ sim.ksys.pop_count[i] = AfterEvents(scen, last.pre.ksys.pop_count[i], f)
           /\ ~st.stale
           /\ st.t + st.next_dt > last.t_end
           /\ st.t = last.t_end
           /\ last.ret = last.t_end

\* ------------------------------------------------------------------------
\* C6
\* ------------------------------------------------------------------------

\* C6: an advance call made on an instance for which an earlier
\* advance(instance, t_end, rng) left a cached event (k, drawn to fire at time
\* a), with no set_count in between, fires k first, at time a, without a draw
\* from the generator before it; when it fires nothing (t_end is still before
\* a), it draws nothing and the event stays cached for time a.
C6_CachedEventIsKept ==
    (Returned /\ last.pend.valid) =>
        LET i == last.instance
            st == sim.states[i]
        IN IF last.fired # <<>>
           THEN /\ last.fired[1].k = last.pend.k
                /\ last.fired[1].at = last.pend.at
                /\ last.fired[1].g = last.preg
           ELSE /\ rng[i] = last.preg
                /\ ~st.stale
                /\ st.next_k_id = last.pend.k
                /\ st.t + st.next_dt = last.pend.at

\* A one-event advance fired an event that an earlier advance(instance, t_end,
\* rng) had left cached, at a time later than the instance's time at the call.
C6_Witness ==
    /\ last.op = "advance" /\ ~last.threw
    /\ last.pend.valid
    /\ last.fired # <<>>
    /\ last.pend.at > last.pre.states[last.instance].t

\* ------------------------------------------------------------------------
\* C7
\* ------------------------------------------------------------------------

\* C7: when advance(instance, rng) returns, it has applied one event: the
\* counts of the instance are those before the call changed by the net change
\* of one process, once; the other instances' counts are unchanged;
\* t[instance] has grown by the event's waiting time and is what the call
\* returns.  For A + A -> nothing with count 4, the count after the call is 2.
C7_AdvanceFiresOneEvent ==
    (last.op = "advance" /\ ~last.threw) =>
        LET i == last.instance
            f == last.fired
        IN /\ Len(f) = 1
           /\ f[1].k \in Procs(sim)
           /\ \A p \in Pops(sim) :
                 Count(sim.ksys, p, i) =
                     Count(last.pre.ksys, p, i) + NetChange(Desc(scen, f[1].k), p)
           /\ \A j \in Instances(scen) \ {i} :
                 sim.ksys.pop_count[j] = last.pre.ksys.pop_count[j]
           /\ sim.states[i].t = last.pre.states[i].t + f[1].dt
           /\ last.ret = sim.states[i].t
           /\ (scen.M = Mdimer /\ Count(last.pre.ksys, 0, i) = 4)
                 => Count(sim.ksys, 0, i) = 2

\* One advance(instance, rng) call on the dimer model took the count from 4
\* to 2.
C7_Witness ==
    /\ last.op = "advance" /\ ~last.threw
    /\ scen.M = Mdimer
    /\ Count(last.pre.ksys, 0, last.instance) = 4
    /\ Count(sim.ksys, 0, last.instance) = 2

\* ------------------------------------------------------------------------
\* C9
\* ------------------------------------------------------------------------

\* C9: after set_count(i, s, c, n), count(i, s, c) returns n, the population
\* written is c * n_species + s of instance i, and every other count of every
\* instance is unchanged.
C9_SetCountThenCount ==
    (last.op = "set_count") =>
        LET i == last.instance
            pop == last.cell * sim.n_species + last.species
        IN /\ PCount(sim, i, last.species, last.cell) = last.n
           /\ sim.ksys.pop_count[i][pop] = last.n
           /\ \A j \in Instances(scen), p \in Pops(sim) :
                 (j # i \/ p # pop) =>
                     sim.ksys.pop_count[j][p] = last.pre.ksys.pop_count[j][p]

\* ------------------------------------------------------------------------
\* C4 (specification SpecSel)
\* ------------------------------------------------------------------------

InstanceSlice(E, i) ==
    [pop_count |-> E.ksys.pop_count[i],
     propensity_tbl |-> E.ksys.propensity_tbl[i],
     state |-> E.states[i]]

\* C8: while the callers make advance calls for the instances in any order,
\* the counts, factor slots, selector, time and cached event of every instance
\* i, and its generator, are those of instance i run alone with the same
\* generator and the same calls.
C8_InstanceFollowsSoloRun ==
    InitDone(sim, ipc) =>
        \A i \in Instances(scen) :
            ~solo[i].lost =>
                /\ InstanceSlice(sim, i) = InstanceSlice(solo[i].S, i)
                /\ rng[i] = solo[i].g

\* ------------------------------------------------------------------------
\* C10 (specification SpecPair)
\* ------------------------------------------------------------------------

\* The (process, waiting time) pairs of the events a call fired
KDt(fired) == [n \in DOMAIN fired |-> <<fired[n].k, fired[n].dt>>]

\* C10: once both engines are initialised, and after every advance call made
\* on both, the counts of every instance are the same in both engines and the
\* call fired the same (process, waiting time) pairs in both.
C10_TwinEnginesAgree ==
    (InitDone(sim, ipc) /\ InitDone(twin.sim, twin.ipc)) =>
        /\ \A i \in Instances(scen) :
              sim.ksys.pop_count[i] = twin.sim.ksys.pop_count[i]
        /\ IsAdvance => KDt(last.fired) = KDt(twin.fired)

\* ------------------------------------------------------------------------
\* C11
\* ------------------------------------------------------------------------

\* C11: a set_count call that passes the count the population already has
\* leaves the instance's counts, factor slots, selector (propensities and
\* total), time, cached event and stale flag as they were before the call.
C11_SetCountOfCurrentCountIsNoOp ==
    (/\ last.op = "set_count"
     /\ last.n = Count(last.pre.ksys,
                       SpeciesToPopId(sim.n_species, last.species, last.cell),
                       last.instance)) =>
        InstanceSlice(sim, last.instance) = InstanceSlice(last.pre, last.instance)

\* ------------------------------------------------------------------------
\* Claims about the process system driven on its own (SpecSys)
\* ------------------------------------------------------------------------

\* The descriptor the process with key k was added with
SysDesc(k) == procsys.descs[k + 1].q

\* r is the inverse of q: left(r) = right(q) and right(r) = left(q), as multisets
Inverse(q, r) ==
    \A p \in 0..2 : /\ Occurrences(r.left, p) = Occurrences(q.right, p)
                    /\ Occurrences(r.right, p) = Occurrences(q.left, p)

\* The last two calls were apply(k) and then apply(k') with k' the inverse of k
AppliedInversePair ==
    /\ last.op = "apply"
    /\ last.prev.op = "apply"
    /\ Inverse(SysDesc(last.prev.k), SysDesc(last.k))

RECURSIVE FirstEncounters(_, _)
FirstEncounters(pcs, seen) ==
    IF pcs = <<>> THEN seen
    ELSE FirstEncounters(Tail(pcs),
            IF \E i \in DOMAIN seen : seen[i] = Head(pcs).k THEN seen
            ELSE Append(seen, Head(pcs).k))

\* C13: during one set_count(p, c) call the observer is called exactly once
\* for each process with a factor slot fed by p, in the order in which those
\* processes first occur in pop_to_pc_tbl[p], and for no other process.
C13_SetCountNotifiesEachProcessOnce ==
    last.op = "set_count" =>
        procsys.notified = FirstEncounters(last.pre.pop_to_pc_tbl[last.p], <<>>)

\* ------------------------------------------------------------------------
\* Claims about the selector's inverse_cdf (SpecSel)
\* ------------------------------------------------------------------------

\* The sum of the propensities of the keys 0..k
CumulativeTo(sel, k) == VSumTo(sel.propensities, k + 1)

C15_NextAfterFallOffRecomputesTotal ==
    (/\ last.op = "next"
     /\ last.prev.op = "next"
     /\ last.prev.threw) =>
        /\ selector.total = VSum(selector.propensities)
        /\ VSum(selector.propensities) > 0 => ~last.threw

\* C16: for every process added, proc_delta_tbl[k] holds exactly one entry
\* (p, d) for each population p whose net change d (occurrences in right minus
\* occurrences in left) is not zero, and no entry for a population whose net
\* change is zero.
C16_ProcDeltasOmitUnchanged ==
    \A i \in DOMAIN procsys.descs :
        LET q == procsys.descs[i].q
            pds == procsys.sys.proc_delta_tbl[procsys.descs[i].key]
        IN /\ \A e \in DOMAIN pds :
                 pds[e].delta # 0 /\ pds[e].delta = NetChange(q, pds[e].p)
           /\ \A p \in 0..2 :
                 NetChange(q, p) # 0 =>
                     Cardinality({e \in DOMAIN pds : pds[e].p = p}) = 1

\* The positions of pop_to_pc_tbl[p] whose entry belongs to process key
EntriesOf(sys, p, key) ==
    {e \in DOMAIN sys.pop_to_pc_tbl[p] : sys.pop_to_pc_tbl[p][e].k = key}

\* p is the i-th smallest (i counted from 0) of the reactants left
IsIthSmallest(left, p, i) ==
    /\ Cardinality({x \in DOMAIN left : left[x] < p}) <= i
    /\ i < Cardinality({x \in DOMAIN left : left[x] <= p})

\* C17: after any sequence of add calls, for every population p the entries
\* of pop_to_pc_tbl[p] that belong to one process are next to each other with
\* strictly ascending slot indices, and for every process each slot index
\* below its number of reactants occurs exactly once over all populations,
\* under the population that is the i-th smallest of its reactants.
C17_SlotsContiguousAscendingBySortedReactant ==
    ~procsys.broken =>
    \A d \in DOMAIN procsys.descs :
        LET key == procsys.descs[d].key
            left == procsys.descs[d].q.left
            tbl == procsys.sys.pop_to_pc_tbl
        IN /\ \A p \in DOMAIN tbl :
                 \A e1, e2 \in EntriesOf(procsys.sys, p, key) :
                    e1 < e2 =>
                       /\ \A e \in e1..e2 : e \in EntriesOf(procsys.sys, p, key)
                       /\ tbl[p][e1].index < tbl[p][e2].index
           /\ \A i \in 0..(Len(left) - 1) :
                 /\ Cardinality({pe \in {<<p, e>> : p \in DOMAIN tbl,
                                                    e \in 1..(MaxProcs * MaxOrder)} :
                                    /\ pe[2] \in EntriesOf(procsys.sys, pe[1], key)
                                    /\ tbl[pe[1]][pe[2]].index = i}) = 1
                 /\ \A p \in DOMAIN tbl :
                       (\E e \in EntriesOf(procsys.sys, p, key) : tbl[p][e].index = i)
                          => IsIthSmallest(left, p, i)

\* Two processes have been added that share a population, the later one with
\* its three reactants given out of order and one of them twice
C17_Witness ==
    /\ ~procsys.broken
    /\ Len(procsys.descs) = 2
    /\ procsys.descs[2].q.left = <<1, 0, 1>>
    /\ \E p \in DOMAIN procsys.sys.pop_to_pc_tbl :
          /\ EntriesOf(procsys.sys, p, 0) # {}
          /\ Cardinality(EntriesOf(procsys.sys, p, 1)) = 2

\* C18: add fails with invalid_value for every descriptor with more than
\* MaxOrder reactants, one with exactly MaxOrder + 1 among them, and no
\* reactant is ever stored at a slot index of MaxOrder or above.
C18_AddRejectsMoreThanMaxOrderReactants ==
    /\ (last.op = "add" /\ Len(last.q.left) > MaxOrder) =>
           last.outcome = "invalid_value"
    /\ \A p \in DOMAIN procsys.sys.pop_to_pc_tbl :
           \A e \in DOMAIN procsys.sys.pop_to_pc_tbl[p] :
               procsys.sys.pop_to_pc_tbl[p][e].index < MaxOrder

\* ------------------------------------------------------------------------
\* Claims about the categorical distribution (SpecCat)
\* ------------------------------------------------------------------------

\* The weights are all non-negative and their sum is positive
ValidWeights(w) == Len(w) >= 1 /\ SeqSum(w) > 0 /\ \A i \in DOMAIN w : w[i] >= 0

\* C19: for weights w of length n >= 1, all non-negative with a positive sum,
\* every q_i of the alias table is in [0,1], every alias that is used (q_i < 1)
\* is an index below n, and the probability of drawing j,
\* (q_j + sum over i with alias_i = j of (1 - q_i)) / n, is w_j / sum(w):
\* with q_i = qn_i / den, den = sum(w), that is
\* qn_j + sum of (den - qn_i) = n * w_j, and of the n * den equally likely
\* draws bin + x/den exactly n * w_j return j.
C19_AliasTableGivesWeights ==
    ValidWeights(categorical.w) =>
        LET P == categorical.P
            den == categorical.den
            n == Len(categorical.w)
        IN /\ VSize(P) = n
           /\ \A i \in DOMAIN P :
                 /\ P[i].q.k = "fin" /\ 0 <= P[i].q.n /\ P[i].q.n <= den
                 /\ P[i].q.n < den => P[i].alias \in 0..(n - 1)
           /\ \A j \in DOMAIN P :
                 /\ P[j].q.n + SeqSum([i \in 1..n |->
                                         IF P[i-1].alias = j THEN den - P[i-1].q.n
                                         ELSE 0])
                       = n * categorical.w[j + 1]
                 /\ Cardinality({d \in 0..(n * den - 1) :
                                    Draw(P, den, d \div den, d % den, den) = j})
                       = n * categorical.w[j + 1]

\* A table was built from three different positive weights in which a bin
\* that started above 1 became a small bin behind i_small_top, and a draw
\* returned an alias
C19_Witness ==
    /\ categorical.w = <<3, 1, 2>>
    /\ \E i \in DOMAIN categorical.P : categorical.P[i].q.n < categorical.den
    /\ last.op = "draw"
    /\ last.k # last.bin

\* C20: constructing a distribution from weights with a negative weight, or
\* with a zero sum, fails with domain_error and yields no distribution.
C20_BadWeightsAreRejected ==
    (/\ last.op = "construct"
     /\ \/ \E i \in DOMAIN last.w : last.w[i] < 0
        \/ SeqSum(last.w) = 0) =>
        /\ last.threw = "domain_error"
        /\ categorical.w # last.w

\* ------------------------------------------------------------------------
\* Samplers (sampler.h)
\* ------------------------------------------------------------------------
\* A real_type value x is the integer x*one, for a unit 1/one fine enough
\* to hold the values of the run, and a sum is rounded by RoundF.  In the
\* specification of the samplers an inclusion probability is a multiple of
\* 1/PiDen and a uniform draw a multiple of 1/UDen, one is PiDen*UDen, and
\* the sums are small enough to be exact.  The population
\* [b,e) handed to sample has popN items, the item at position j being j
\* (the demos sample from the range of indices from(0)..to(N)).  The
\* result of a sample call is the record [out, ret, threw]: out[i] is the
\* item in the i-th place of the output range (the places written are
\* 1..Len(out)), ret the value returned.

\* Inclusion probabilities are multiples of 1/PiDen.
PiDen == 2

\* Largest sample size n of a fixed-size sampler.
MaxSample == 2

\* The population is at most MaxExtra items longer than the parameter.
MaxExtra == 1

\* Order variates of the reservoir samplers are drawn from 0..MaxRank.
MaxRank == 2

\* Draws consumed by one call of the rejective sampler.
MaxDraws == 4

Returns(out, ret) == [out |-> out, ret |-> ret, threw |-> "nothing"]

Throws(what) == [out |-> <<>>, ret |-> 0, threw |-> what]

CeilDiv(a, d) == (a + d - 1) \div d

\* ordered_systematic_sampler::param_type(pi_begin, pi_end): the partial
\* sums of pi.  std::partial_sum copies the first element and calls the
\* checking lambda for the later ones only.
OssParamThrows(pi, one) == \E i \in 2..Len(pi) : pi[i] < 0 \/ pi[i] > one

RECURSIVE OssParam(_)
OssParam(pi) ==
    IF Len(pi) <= 1 THEN pi
    ELSE Append(OssParam(SubSeq(pi, 1, Len(pi) - 1)),
                RoundF(OssParam(SubSeq(pi, 1, Len(pi) - 1))[Len(pi) - 1]
                       + pi[Len(pi)]))

\* ordered_systematic_sampler::max()
OssMax(pi_psum, one) ==
    IF Len(pi_psum) = 0 THEN 0 ELSE CeilDiv(pi_psum[Len(pi_psum)], one)

\* u += 1 (a variant that leaves u alone comes first)
UStays(u, one) == u

UPlusOne(u, one) == RoundF(u + one)

\* ordered_systematic_sampler::sample: the loop over pi_psum, at its i-th
\* element.  n is the local that the loop tests against n_max and that the
\* function returns; no statement changes it.
RECURSIVE OssLoop(_, _, _, _, _, _, _, _)
OssLoop(pi_psum, popN, one, u, n, n_max, i, o) ==
    IF i > Len(pi_psum) \/ i > popN \/ n = n_max THEN Returns(o, n)
    ELSE IF u < pi_psum[i]
    THEN OssLoop(pi_psum, popN, one, UPlusOne(u, one), n, n_max, i + 1,
                 Append(o, i - 1))
    ELSE OssLoop(pi_psum, popN, one, u, n, n_max, i + 1, o)

\* ordered_systematic_sampler::sample, for the draw u = U(g)
OssSample(pi_psum, popN, one, u) ==
    OssLoop(pi_psum, popN, one, u, 0, OssMax(pi_psum, one), 1, <<>>)

\* multinomial_draw_sampler::sample; draws[i] is the i-th value of cat(g)
MultinomialSample(n, size, popN, draws) ==
    IF n = 0 THEN Returns(<<>>, 0)
    ELSE IF popN < size THEN Throws("out_of_range")
    ELSE Returns([i \in 1..n |-> draws[i]], n)

\* The values cat(g) can take for the distribution built from w
CatOutcomes(w) ==
    {Draw(ParamType(w), Denominator(w), bin, un, UDen) :
        bin \in 0..(Len(w) - 1), un \in 0..(UDen - 1)}

\* next_order::operator() of the two reservoir samplers: past the end of
\* the coefficients the largest double, otherwise a variate, of which the
\* model keeps the rank r in 0..MaxRank
NextOrder(qsize, i, r) == IF i >= qsize THEN MaxRank + 1 ELSE r

\* heap.front(): the largest (order, place) pair (a variant that gives the
\* smallest comes first)
HeapSmallest(heap) ==
    CHOOSE k \in heap : \A h \in heap :
        k[1] < h[1] \/ (h[1] = k[1] /\ k[2] <= h[2])

HeapFront(heap) ==
    CHOOSE k \in heap : \A h \in heap :
        h[1] < k[1] \/ (h[1] = k[1] /\ h[2] <= k[2])

\* impl::order_reservoir_sample, the loop over the items after the first n
\* (b is the position of the next item, ords[b + 1] the rank drawn for it)
RECURSIVE ReservoirKeep(_, _, _, _, _, _)
ReservoirKeep(qsize, popN, ords, b, heap, o) ==
    IF b >= popN THEN o
    ELSE IF NextOrder(qsize, b, ords[b + 1]) < HeapFront(heap)[1]
    THEN ReservoirKeep(qsize, popN, ords, b + 1,
             (heap \ {HeapFront(heap)})
                 \cup {<<NextOrder(qsize, b, ords[b + 1]), HeapFront(heap)[2]>>},
             [o EXCEPT ![HeapFront(heap)[2] + 1] = b])
    ELSE ReservoirKeep(qsize, popN, ords, b + 1, heap, o)

\* impl::order_reservoir_sample(n, b, e, o, f)
OrderReservoirSample(n, qsize, popN, ords) ==
    IF n = 0 THEN Returns(<<>>, 0)
    ELSE IF popN < n THEN Returns([i \in 1..popN |-> i - 1], popN)
    ELSE Returns(ReservoirKeep(qsize, popN, ords, n,
                     {<<NextOrder(qsize, i, ords[i + 1]), i>> : i \in 0..(n - 1)},
                     [i \in 1..n |-> i - 1]), n)

\* cps_multinomial_rejective::sample, the rejective loop: j is the next
\* draw, i the number of items of the current attempt, o the output range
\* (an attempt that starts over writes from its first place again).  The
\* loop ends when an attempt has drawn n distinct items.
\* (A variant that passes over a repeated index and keeps the attempt comes
\* first.)
RECURSIVE CpsLoopSkips(_, _, _, _, _, _)
CpsLoopSkips(n, draws, j, i, drawn, o) ==
    IF i >= n THEN [done |-> TRUE, out |-> o, used |-> j - 1]
    ELSE IF j > Len(draws) THEN [done |-> FALSE, out |-> o, used |-> j - 1]
    ELSE IF draws[j] \in drawn THEN CpsLoopSkips(n, draws, j + 1, i, drawn, o)
    ELSE CpsLoopSkips(n, draws, j + 1, i + 1, drawn \cup {draws[j]},
                      IF i + 1 <= Len(o) THEN [o EXCEPT ![i + 1] = draws[j]]
                      ELSE Append(o, draws[j]))

RECURSIVE CpsLoop(_, _, _, _, _, _)
CpsLoop(n, draws, j, i, drawn, o) ==
    IF i >= n THEN [done |-> TRUE, out |-> o, used |-> j - 1]
    ELSE IF j > Len(draws) THEN [done |-> FALSE, out |-> o, used |-> j - 1]
    ELSE IF draws[j] \in drawn THEN CpsLoop(n, draws, j + 1, 0, {}, o)
    ELSE CpsLoop(n, draws, j + 1, i + 1, drawn \cup {draws[j]},
                 IF i + 1 <= Len(o) THEN [o EXCEPT ![i + 1] = draws[j]]
                 ELSE Append(o, draws[j]))

\* cps_multinomial_rejective::sample
CpsSample(n, size, popN, draws) ==
    IF popN < size THEN Throws("invalid_argument")
    ELSE IF popN < n THEN Returns([i \in 1..popN |-> i - 1], popN)
    ELSE Returns(CpsLoop(n, draws, 1, 0, {}, <<>>).out, n)

\* min(), max() and size() of a sampler
SamplerMin(s) == IF s.kind = "ordered_systematic" THEN 0 ELSE s.n

SamplerMax(s) ==
    IF s.kind = "ordered_systematic" THEN OssMax(s.pi_psum, PiDen * UDen)
    ELSE s.n

SamplerSize(s) ==
    IF s.kind = "ordered_systematic" THEN 0
    ELSE IF s.kind \in {"adjusted_pareto", "efraimidis_spirakis"} THEN s.n
    ELSE s.nparam

\* ------------------------------------------------------------------------
\* Specification of one sampler: construction, then sample calls
\* ------------------------------------------------------------------------
\* sampler = [kind, made, n, pi_psum, w, nparam, popN, res]: the class, whether
\* the constructor returned, the sample size n, the partial sums of the
\* ordered systematic sampler, the weights of the categorical distribution
\* of multinomial_draw_sampler, the length of the parameter range, and the
\* population length and the result of the latest sample call.

SeqsUpTo(S, m) == UNION {[1..k -> S] : k \in 0..m}

ParamVectors == SeqsUpTo(0..(PiDen + 1), MaxLen)

\* The vector pi of multiples of 1/PiDen in units of 1/(PiDen*UDen)
InUnits(pi) == [i \in DOMAIN pi |-> pi[i] * UDen]

NoResult == [out |-> <<>>, ret |-> 0, threw |-> "none"]

NoSampler ==
    [kind |-> "none", made |-> FALSE, n |-> 0, pi_psum |-> <<>>, w |-> <<>>,
     nparam |-> 0, popN |-> 0, res |-> NoResult]

InitSamp ==
    /\ sampler = NoSampler
    /\ last = NoCall
    /\ nops = 0
    /\ EngineIdle
    /\ bins = NoEngine /\ collection = NoEngine /\ loaded = NoEngine
    /\ guarded = NoEngine /\ msets = NoEngine
    /\ driver = NoEngine

Constructed(kind, made, n, pi_psum, w, nparam) ==
    /\ nops = 0
    /\ nops' = 1
    /\ sampler' = [kind |-> kind, made |-> made, n |-> n, pi_psum |-> pi_psum,
                   w |-> w, nparam |-> nparam, popN |-> 0, res |-> NoResult]
    /\ last' = [op |-> "construct", threw |-> ~made]
    /\ UNCHANGED <<engine, bins, collection, loaded, guarded, msets, driver>>

\* ordered_systematic_sampler(pi_begin, pi_end)
OssConstructCall(pi) ==
    /\ nops = 0
    /\ nops' = 1
    /\ sampler' =
          IF OssParamThrows(InUnits(pi), PiDen * UDen)
          THEN [NoSampler EXCEPT !.kind = "ordered_systematic"]
          ELSE [NoSampler EXCEPT !.kind = "ordered_systematic", !.made = TRUE,
                                 !.pi_psum = OssParam(InUnits(pi)),
                                 !.nparam = Len(pi)]
    /\ last' = [op |-> "construct",
                threw |-> OssParamThrows(InUnits(pi), PiDen * UDen), pi |-> pi]
    /\ UNCHANGED <<engine, bins, collection, loaded, guarded, msets, driver>>

\* multinomial_draw_sampler(n_, b, e), for weights the categorical
\* distribution accepts
MultinomialConstructCall(n, w) ==
    /\ Len(w) >= 1 /\ SeqSum(w) > 0
    /\ Constructed("multinomial_draw", TRUE, n, <<>>, w, Len(w))

\* The weights pbis of param_type's constructor, in hundredths
Pbis == <<7, 17, 41, 61, 83, 91>>

\* multinomial_draw_sampler::param_type(n_, mu_begin, mu_end): n, and the
\* weights cat_param is built from
MultinomialParamType(n, mu) == [n |-> n, w |-> Pbis]

\* multinomial_draw_sampler s; s.param(param_type(n, b, e)), for weights
\* the categorical distribution accepts
MultinomialParamCall(n, mu) ==
    /\ nops = 0
    /\ Len(mu) >= 1 /\ SeqSum(mu) > 0
    /\ nops' = 1
    /\ sampler' = [kind |-> "multinomial_draw", made |-> TRUE,
                   n |-> MultinomialParamType(n, mu).n, pi_psum |-> <<>>,
                   w |-> MultinomialParamType(n, mu).w,
                   nparam |-> Len(MultinomialParamType(n, mu).w),
                   popN |-> 0, res |-> NoResult]
    /\ last' = [op |-> "param", threw |-> FALSE, n |-> n, mu |-> mu]
    /\ UNCHANGED <<engine, bins, collection, loaded, guarded, msets, driver>>

\* adjusted_pareto_sampler(n_, b, e) and efraimidis_spirakis_sampler(n_, b, e)
ReservoirConstructCall(kind, n, w) ==
    Constructed(kind, TRUE, n, <<>>, <<>>, Len(w))

\* cps_multinomial_rejective(n_, b, e).  The constructor inverts the
\* inclusion probabilities by a quasi-Newton iteration in floating point,
\* which returns or throws runtime_error; the model keeps both outcomes.
CpsConstructCall(n, w, converged) ==
    Constructed("cps_multinomial_rejective", converged, n, <<>>, <<>>, Len(w))

Sampled(popN, res) ==
    /\ sampler.made
    /\ sampler' = [sampler EXCEPT !.popN = popN, !.res = res]
    /\ last' = [op |-> "sample", popN |-> popN]
    /\ UNCHANGED <<engine, nops, bins, collection, loaded, guarded, msets, driver>>

OssSampleCall(popN, un) ==
    /\ sampler.kind = "ordered_systematic"
    /\ Sampled(popN, OssSample(sampler.pi_psum, popN, PiDen * UDen, un * PiDen))

MultinomialSampleCall(popN, draws) ==
    /\ sampler.kind = "multinomial_draw"
    /\ Sampled(popN, MultinomialSample(sampler.n, SamplerSize(sampler), popN, draws))

ReservoirSampleCall(popN, ords) ==
    /\ sampler.kind \in {"adjusted_pareto", "efraimidis_spirakis"}
    /\ sampler.made
    /\ sampler' = [sampler EXCEPT
                      !.popN = popN,
                      !.res = OrderReservoirSample(sampler.n, sampler.nparam,
                                                   popN, ords)]
    /\ last' = [op |-> "sample", popN |-> popN, ords |-> ords]
    /\ UNCHANGED <<engine, nops, bins, collection, loaded, guarded, msets, driver>>

\* (A call whose loop does not end returns nothing and is no step.  The
\* draws cat(g) gave during the call are kept in last.)
CpsSampleCall(popN, draws) ==
    /\ sampler.kind = "cps_multinomial_rejective"
    /\ sampler.made
    /\ \/ popN < SamplerSize(sampler)
       \/ popN < sampler.n
       \/ /\ CpsLoop(sampler.n, draws, 1, 0, {}, <<>>).done
          /\ CpsLoop(sampler.n, draws, 1, 0, {}, <<>>).used = Len(draws)
    /\ (popN < SamplerSize(sampler) \/ popN < sampler.n) => draws = <<>>
    /\ sampler' = [sampler EXCEPT
                      !.popN = popN,
                      !.res = CpsSample(sampler.n, SamplerSize(sampler), popN,
                                        draws)]
    /\ last' = [op |-> "sample", popN |-> popN, draws |-> draws]
    /\ UNCHANGED <<engine, nops, bins, collection, loaded, guarded, msets, driver>>

NextSamp ==
    \/ \E pi \in ParamVectors : OssConstructCall(pi)
    \/ \E n \in 0..MaxSample, w \in ParamVectors : MultinomialConstructCall(n, w)
    \/ \E n \in 0..MaxSample, mu \in ParamVectors : MultinomialParamCall(n, mu)
    \/ \E kind \in {"adjusted_pareto", "efraimidis_spirakis"}, n \in 0..MaxSample,
          w \in ParamVectors : ReservoirConstructCall(kind, n, w)
    \/ \E n \in 0..MaxSample, w \in ParamVectors, converged \in BOOLEAN :
          CpsConstructCall(n, w, converged)
    \/ /\ sampler.kind = "ordered_systematic"
       /\ \E popN \in 0..(sampler.nparam + MaxExtra), un \in 0..(UDen - 1) :
              OssSampleCall(popN, un)
    \/ /\ sampler.kind = "multinomial_draw"
       /\ \E popN \in 0..(sampler.nparam + MaxExtra) :
              \E draws \in [1..sampler.n -> CatOutcomes(sampler.w)] :
                  MultinomialSampleCall(popN, draws)
    \/ /\ sampler.kind \in {"adjusted_pareto", "efraimidis_spirakis"}
       /\ \E popN \in 0..(sampler.nparam + MaxExtra) :
              \E ords \in [1..popN -> 0..MaxRank] : ReservoirSampleCall(popN, ords)
    \/ /\ sampler.kind = "cps_multinomial_rejective"
       /\ \E popN \in 0..(sampler.nparam + MaxExtra) :
              \E draws \in SeqsUpTo(0..(sampler.nparam - 1), MaxDraws) :
                  CpsSampleCall(popN, draws)

SpecSamp == InitSamp /\ [][NextSamp]_vars

\* ------------------------------------------------------------------------
\* Claims about the samplers
\* ------------------------------------------------------------------------

\* The latest call was sample on a sampler of the given class
SampledBy(kinds) ==
    sampler.kind \in kinds /\ sampler.made /\ last.op = "sample"

\* The sum of the inclusion probabilities, in units of 1/(PiDen*UDen)
PiSum(s) == IF Len(s.pi_psum) = 0 THEN 0 ELSE s.pi_psum[Len(s.pi_psum)]

\* C21: for inclusion probabilities in [0,1] and a population at least as
\* long as the parameter, ordered_systematic_sampler::sample writes
\* floor(sum pi) or ceil(sum pi) items for every u (so exactly n when the sum
\* is the integer n), in population order and none of them twice.
C21_OssWritesFloorOrCeilInOrder ==
    (/\ SampledBy({"ordered_systematic"})
     /\ sampler.popN >= sampler.nparam
     /\ sampler.nparam >= 1 => sampler.pi_psum[1] <= PiDen * UDen) =>
        /\ Len(sampler.res.out) \in {PiSum(sampler) \div (PiDen * UDen),
                                     CeilDiv(PiSum(sampler), PiDen * UDen)}
        /\ \A i, j \in DOMAIN sampler.res.out :
               i < j => sampler.res.out[i] < sampler.res.out[j]

\* A sample of two adjacent items from probabilities that sum to 3/2
C21_Witness ==
    /\ SampledBy({"ordered_systematic"})
    /\ sampler.popN >= sampler.nparam
    /\ sampler.nparam >= 1
    /\ sampler.pi_psum[1] <= PiDen * UDen
    /\ PiSum(sampler) % (PiDen * UDen) # 0
    /\ Len(sampler.res.out) = CeilDiv(PiSum(sampler), PiDen * UDen)
    /\ \E i \in DOMAIN sampler.res.out :
           /\ i + 1 \in DOMAIN sampler.res.out
           /\ sampler.res.out[i + 1] = sampler.res.out[i] + 1

AllSamplers ==
    {"ordered_systematic", "multinomial_draw", "adjusted_pareto",
     "efraimidis_spirakis", "cps_multinomial_rejective"}

\* C22: for each of the five samplers, the value sample returns is the
\* number of items it wrote, and lies between min() and max().
C22_ReturnIsNumberWrittenWithinBounds ==
    (SampledBy(AllSamplers) /\ sampler.res.threw = "nothing") =>
        /\ sampler.res.ret = Len(sampler.res.out)
        /\ SamplerMin(sampler) <= sampler.res.ret
        /\ sampler.res.ret <= SamplerMax(sampler)

\* C24: a sampler that requires a population of size() items throws
\* out_of_range and writes nothing when sample is given a shorter
\* population, and ignores the items of a longer one beyond size().  (Stated
\* for samples of at least one item.)
C24_ShortPopulationThrowsOutOfRange ==
    (SampledBy(AllSamplers) /\ SamplerSize(sampler) > 0 /\ sampler.n > 0) =>
        IF sampler.popN < SamplerSize(sampler)
        THEN sampler.res.threw = "out_of_range" /\ sampler.res.out = <<>>
        ELSE \A i \in DOMAIN sampler.res.out :
                 sampler.res.out[i] < SamplerSize(sampler)

\* ------------------------------------------------------------------------
\* Integer allocation (demo_distribute.cc)
\* ------------------------------------------------------------------------
\* The helper works in double.  A double x is the integer x*FOne, which holds
\* every value_type at or above 1/16 and every sum of the run; the weights
\* handed in are whole numbers.

\* At most MaxTotal units are allocated.
MaxTotal == 3

FOne == Pow2(MantBits + 3)

\* 1.0/d for a whole d: the quotient to a quarter of the unit, its last bit
\* set when digits are cut off, then rounded
FOver(d) ==
    RoundF(2 * ((2 * FOne) \div d) + (IF (2 * FOne) % d = 0 THEN 0 ELSE 1)) \div 4

\* x*k for a whole k
FTimes(x, k) == RoundF(x * k)

\* The draws U(g) of the model: the multiples of 1/UDen cut to the unit,
\* and the largest double below 1
UValues ==
    {(un * FOne) \div UDen : un \in 0..(UDen - 1)}
        \cup {FOne - FOne \div Pow2(MantBits)}

\* distribute_common: q for bin i, weight[i]*oo_total*c
Quota(c, weight, i) == FTimes(FTimes(FOver(SeqSum(weight)), weight[i]), c)

\* distribute_common: the bins, the residual weights, and the deficit returned
DistributeCommon(c, weight) ==
    [bin |-> [i \in DOMAIN weight |-> Quota(c, weight, i) \div FOne],
     weight |-> [i \in DOMAIN weight |-> Quota(c, weight, i) % FOne],
     r |-> c - SeqSum([i \in DOMAIN weight |-> Quota(c, weight, i) \div FOne])]

\* ++bin[i] for every item i of the sample
Incremented(bin, items) ==
    [i \in DOMAIN bin |->
        bin[i] + Cardinality({k \in DOMAIN items : items[k] = i - 1})]

\* distribute_multinomial
DistributeMultinomial(c, weight, draws) ==
    IF DistributeCommon(c, weight).r = 0 THEN DistributeCommon(c, weight).bin
    ELSE Incremented(DistributeCommon(c, weight).bin,
             MultinomialSample(DistributeCommon(c, weight).r, Len(weight),
                               Len(weight), draws).out)

\* distribute_oss
DistributeOss(c, weight, u) ==
    IF DistributeCommon(c, weight).r = 0 THEN DistributeCommon(c, weight).bin
    ELSE Incremented(DistributeCommon(c, weight).bin,
             OssSample(OssParam(DistributeCommon(c, weight).weight),
                       Len(weight), FOne, u).out)

\* distribute_generic, from remainder.resize(s) on, for the result of
\* S.sample
DistributeGeneric(c, weight, res) ==
    IF DistributeCommon(c, weight).r = 0 THEN DistributeCommon(c, weight).bin
    ELSE Incremented(DistributeCommon(c, weight).bin,
                     SubSeq(res.out, 1, res.ret))

\* ------------------------------------------------------------------------
\* Specification of the allocation helper: one call of a distribute function
\* ------------------------------------------------------------------------
\* bins = [method, c, weight, bin, threw]: the method (as run_test names it),
\* the total and the weights handed in, the bins when the call is over and
\* whether it threw.  (Calls are independent of each other: each fills the
\* bins afresh.  A behaviour makes one.)

\* Weight vectors: whole weights with a positive sum
BinWeights == {w \in SeqsUpTo(0..MaxWeight, MaxLen) : SeqSum(w) > 0}

InitDist ==
    /\ bins = [method |-> "none", c |-> 0, weight |-> <<>>, bin |-> <<>>,
               threw |-> FALSE]
    /\ last = NoCall
    /\ nops = 0
    /\ EngineIdle
    /\ sampler = NoEngine /\ collection = NoEngine /\ loaded = NoEngine
    /\ guarded = NoEngine /\ msets = NoEngine
    /\ driver = NoEngine

Distributed(method, c, weight, bin, threw) ==
    /\ nops = 0
    /\ nops' = 1
    /\ bins' = [method |-> method, c |-> c, weight |-> weight, bin |-> bin,
                threw |-> threw]
    /\ last' = [op |-> "distribute"]
    /\ UNCHANGED <<engine, sampler, collection, loaded, guarded, msets, driver>>

\* distribute_multinomial(count, R, bin, weight)
DistributeMultinomialCall(c, weight, draws) ==
    Distributed("MULTINOMIAL", c, weight,
                DistributeMultinomial(c, weight, draws), FALSE)

\* distribute_oss(count, R, bin, weight)
DistributeOssCall(c, weight, u) ==
    Distributed("OSS", c, weight, DistributeOss(c, weight, u), FALSE)

\* distribute_generic<adjusted_pareto_sampler> and
\* distribute_generic<efraimidis_spirakis_sampler>
DistributeReservoirCall(method, c, weight, ords) ==
    Distributed(method, c, weight,
        DistributeGeneric(c, weight,
            OrderReservoirSample(DistributeCommon(c, weight).r, Len(weight),
                                 Len(weight), ords)), FALSE)

\* distribute_generic with the conditional Poisson rejective sampler.
\* (run_test names the class cps_poisson_rejective; sampler.h defines
\* cps_multinomial_rejective, which is the class modelled.)  The call throws
\* when the constructor of the sampler does.
DistributeCpsCall(c, weight, converged, draws) ==
    IF DistributeCommon(c, weight).r > 0 /\ ~converged
    THEN Distributed("CPSREJ", c, weight, DistributeCommon(c, weight).bin, TRUE)
    ELSE /\ \/ DistributeCommon(c, weight).r = 0
            \/ CpsLoop(DistributeCommon(c, weight).r, draws, 1, 0, {}, <<>>).done
         /\ Distributed("CPSREJ", c, weight,
                DistributeGeneric(c, weight,
                    CpsSample(DistributeCommon(c, weight).r, Len(weight),
                              Len(weight), draws)), FALSE)

NextDist ==
    \/ /\ nops = 0
       /\ \E c \in 0..MaxTotal, weight \in BinWeights :
             \E draws \in [1..DistributeCommon(c, weight).r
                               -> CatOutcomes(DistributeCommon(c, weight).weight)] :
                 DistributeMultinomialCall(c, weight, draws)
    \/ /\ nops = 0
       /\ \E c \in 0..MaxTotal, weight \in BinWeights, u \in UValues :
             DistributeOssCall(c, weight, u)
    \/ /\ nops = 0
       /\ \E method \in {"ADJPARETO", "EFRAIMIDIS"}, c \in 0..MaxTotal,
             weight \in BinWeights :
             \E ords \in [1..Len(weight) -> 0..MaxRank] :
                 DistributeReservoirCall(method, c, weight, ords)
    \/ /\ nops = 0
       /\ \E c \in 0..MaxTotal, weight \in BinWeights, converged \in BOOLEAN :
             \E draws \in SeqsUpTo(0..(Len(weight) - 1), MaxDraws) :
                 DistributeCpsCall(c, weight, converged, draws)

SpecDist == InitDist /\ [][NextDist]_vars

\* C23: for every total c >= 0 and weights with a positive sum, every
\* distribute function returns with the bins summing to c exactly, each bin
\* holding at least floor(c*w[i]/sum w), whatever the random draws.
C23_BinsSumToTotal ==
    (last.op = "distribute" /\ ~bins.threw) =>
        /\ SeqSum(bins.bin) = bins.c
        /\ \A i \in DOMAIN bins.bin :
               bins.bin[i] >= (bins.c * bins.weight[i]) \div SeqSum(bins.weight)

\* ------------------------------------------------------------------------
\* named_collection (named_collection.h)
\* ------------------------------------------------------------------------
\* A collection is [items, keymap, order]: the vector of items, the map from
\* names to indices, and, kept for the claims only, the names in the order of
\* their first insert.  An item is [name, val].  A name is <<base, suffix>>:
\* the string base followed by the decimal suffix, or base alone when the
\* suffix is 0.

\* Calls made on a collection.
MaxCollOps == 4

CollectionNew == [items |-> VEmpty, keymap |-> <<>>, order |-> <<>>]

\* index(n)
CollIndex(C, n) == IF n \in DOMAIN C.keymap THEN C.keymap[n] ELSE 0 - 1

\* insert(v) (a variant that appends whether or not the name is there comes
\* first)
CollInsertAppends(C, v) ==
    [items |-> VPush(C.items, v),
     keymap |-> [n \in DOMAIN C.keymap \cup {v.name} |->
                    IF n = v.name THEN VSize(C.items) ELSE C.keymap[n]],
     order |-> IF v.name \in DOMAIN C.keymap THEN C.order
               ELSE Append(C.order, v.name)]

CollInsert(C, v) ==
    IF CollIndex(C, v.name) >= 0
    THEN [C EXCEPT !.items[CollIndex(C, v.name)] = v]
    ELSE [items |-> VPush(C.items, v),
          keymap |-> [n \in DOMAIN C.keymap \cup {v.name} |->
                         IF n = v.name THEN VSize(C.items) ELSE C.keymap[n]],
          order |-> Append(C.order, v.name)]

\* unique_key(k): the loop, with the suffix reached
RECURSIVE UniqueKey(_, _, _)
UniqueKey(C, k, suffix) ==
    IF CollIndex(C, <<k, suffix>>) >= 0 THEN UniqueKey(C, k, suffix + 1)
    ELSE <<k, suffix>>

\* check_or_make_unique_name(C, name_node, fallback); an absent name node is
\* <<>>.  It throws model_io_error for a name that is there (a variant that
\* never throws comes first).
NameAccepted(C, name_node) == FALSE

NameThrows(C, name_node) == name_node # <<>> /\ CollIndex(C, name_node) >= 0

CheckOrMakeUniqueName(C, name_node, fallback) ==
    IF name_node # <<>> THEN name_node ELSE UniqueKey(C, fallback, 0)

\* ------------------------------------------------------------------------
\* Specification of one named_collection
\* ------------------------------------------------------------------------
\* collection is the named_collection; last the latest call and what it
\* returned or threw.

ItemNames == {<<"A", 0>>, <<"B", 0>>, <<"_s", 0>>, <<"_s", 1>>}

ItemVals == 0..1

InitColl ==
    /\ collection = CollectionNew
    /\ last = NoCall
    /\ nops = 0
    /\ EngineIdle
    /\ sampler = NoEngine /\ bins = NoEngine /\ loaded = NoEngine
    /\ guarded = NoEngine /\ msets = NoEngine
    /\ driver = NoEngine

\* insert(v)
CollInsertCall(v) ==
    /\ nops < MaxCollOps
    /\ nops' = nops + 1
    /\ collection' = CollInsert(collection, v)
    /\ last' = [op |-> "insert", v |-> v, threw |-> FALSE]
    /\ UNCHANGED <<engine, sampler, bins, loaded, guarded, msets, driver>>

\* index(n)
CollIndexCall(n) ==
    /\ last' = [op |-> "index", n |-> n, ret |-> CollIndex(collection, n)]
    /\ UNCHANGED <<engine, nops, collection, sampler, bins, loaded, guarded, msets, driver>>

\* The loader adding an item: check_or_make_unique_name, throwing
\* model_io_error for a name that is there, then insert (as parse_species,
\* parse_reaction and the cell parsers do)
CollAddCall(name_node, val) ==
    /\ nops < MaxCollOps
    /\ nops' = nops + 1
    /\ IF NameThrows(collection, name_node)
       THEN /\ UNCHANGED collection
            /\ last' = [op |-> "add", name_node |-> name_node, threw |-> TRUE]
       ELSE /\ collection' = CollInsert(collection,
                [name |-> CheckOrMakeUniqueName(collection, name_node, "_s"),
                 val |-> val])
            /\ last' = [op |-> "add", name_node |-> name_node, threw |-> FALSE]
    /\ UNCHANGED <<engine, sampler, bins, loaded, guarded, msets, driver>>

NextColl ==
    \/ \E n \in ItemNames, val \in ItemVals :
          CollInsertCall([name |-> n, val |-> val])
    \/ \E n \in ItemNames : CollIndexCall(n)
    \/ \E n \in ItemNames \cup {<<>>}, val \in ItemVals : CollAddCall(n, val)

SpecColl == InitColl /\ [][NextColl]_vars

\* The items in iteration order, begin() to end()
Iterated(C) == [i \in 1..VSize(C.items) |-> C.items[i - 1]]

\* C25: after any sequence of inserts the item with a name sits at the index
\* that is the number of distinct names first inserted before it, the index
\* of a name never changes, iteration visits the items in order of first
\* insertion, index(name) is -1 for a name never inserted, and keymap and
\* items agree.
C25_IndexIsFirstInsertionRank ==
    /\ [](/\ VSize(collection.items) = Len(collection.order)
          /\ DOMAIN collection.keymap = {collection.order[i] :
                                            i \in DOMAIN collection.order}
          /\ \A i \in DOMAIN collection.order :
                /\ Iterated(collection)[i].name = collection.order[i]
                /\ CollIndex(collection, collection.order[i]) = i - 1
                /\ \A j \in DOMAIN collection.order :
                       collection.order[i] = collection.order[j] => i = j
          /\ \A n \in ItemNames :
                n \notin DOMAIN collection.keymap => CollIndex(collection, n) = 0 - 1
          /\ last.op = "index" => last.ret = CollIndex(collection, last.n))
    /\ [][\A n \in DOMAIN collection.keymap :
             CollIndex(collection', n) = CollIndex(collection, n)]_vars

\* Three names in the collection, one of them inserted twice
C25_Witness ==
    /\ Len(collection.order) = 3
    /\ nops = 4
    /\ last.op = "insert"
    /\ CollIndex(collection, last.v.name) = 0

\* C26: inserting an item whose name is already in the collection fails and
\* leaves the collection, with the item stored under the name, unchanged.
C26_DuplicateInsertIsRejected ==
    [][(last'.op = "insert" /\ nops' = nops + 1
        /\ CollIndex(collection, last'.v.name) >= 0) =>
           (last'.threw /\ collection' = collection)]_vars

\* C26 as amended: insert of an item whose name is already in the collection
\* does not fail; it replaces the item stored under the name and leaves the
\* size, the indices and the other items as they were.  The loader rejects
\* a name that is already there before it inserts: it throws and the
\* collection is unchanged.
C26_DuplicateInsertReplaces ==
    [][/\ (last'.op = "insert" /\ nops' = nops + 1
           /\ CollIndex(collection, last'.v.name) >= 0) =>
              /\ ~last'.threw
              /\ collection'.keymap = collection.keymap
              /\ collection'.items =
                     [collection.items EXCEPT
                         ![CollIndex(collection, last'.v.name)] = last'.v]
       /\ (last'.op = "add" /\ nops' = nops + 1 /\ last'.name_node # <<>>
           /\ CollIndex(collection, last'.name_node) >= 0) =>
              (last'.threw /\ collection' = collection)]_vars

\* The loader has rejected a name whose item an insert had replaced before
C26_Witness ==
    /\ last.op = "add" /\ last.threw
    /\ nops = 3
    /\ VSize(collection.items) = 1
    /\ collection.items[0].val = 1

\* ------------------------------------------------------------------------
\* Model loader (rdmodel.cc)
\* ------------------------------------------------------------------------
\* A model document is [cells, species, reactions]: the volumes of its wmvol
\* entries, its species entries [name, diffusivity, concentration] and its
\* reaction entries [rate, left, right], in document order.  A key that the
\* document leaves out is <<>>, one that it gives is <<v>>; the rate is the
\* list of one or two numbers given.  Numbers are whole multiples of
\* std::numeric_limits<double>::epsilon().  The loader's state is
\* [M, threw]: the model built so far and the exception thrown, if any.

Epsilon == 1

\* Numbers in a document run from -1 to MaxVal.
MaxVal == 1

ModelNew ==
    [species |-> CollectionNew, reactions |-> CollectionNew,
     cell_sets |-> CollectionNew, cells |-> <<>>]

Loading(M) == [M |-> M, threw |-> "nothing"]

LoadThrows(M, what) == [M |-> M, threw |-> what]

\* The value of an optional key, with its default
ValueOr(node, default) == IF node = <<>> THEN default ELSE node[1]

\* parse_cells_wmvol(M, e) for an entry without a name
ParseCellsWmvol(M, volume) ==
    IF volume < Epsilon
    THEN LoadThrows(M, "model_incorrectBiologicalValue_error")
    ELSE Loading([M EXCEPT
             !.cells = Append(M.cells, [volume |-> volume]),
             !.cell_sets = CollInsert(M.cell_sets,
                 [name |-> CheckOrMakeUniqueName(M.cell_sets, <<>>, "_wmvol"),
                  cells |-> <<Len(M.cells)>>])])

\* parse_species(M, S)
ParseSpecies(M, S) ==
    IF NameThrows(M.species, S.name) THEN LoadThrows(M, "model_io_error")
    ELSE IF ValueOr(S.diffusivity, 0) < Epsilon
    THEN LoadThrows(M, "model_incorrectBiologicalValue_error")
    ELSE IF ValueOr(S.concentration, 0) < Epsilon
    THEN LoadThrows(M, "model_incorrectBiologicalValue_error")
    ELSE Loading([M EXCEPT !.species = CollInsert(M.species,
             [name |-> CheckOrMakeUniqueName(M.species, S.name, "_s"),
              diffusivity |-> ValueOr(S.diffusivity, 0),
              concentration |-> ValueOr(S.concentration, 0)])])

\* parse_species_list: whether it throws, and the multiset of indices as a
\* sequence
SpeciesListThrows(M, species) ==
    \E i \in DOMAIN species : CollIndex(M.species, species[i]) < 0

ParseSpeciesList(M, species) ==
    [i \in DOMAIN species |-> CollIndex(M.species, species[i])]

\* The text of a name
NameText(n) == IF n[2] = 0 THEN n[1] ELSE n[1] \o ToString(n[2])

\* parse_reaction(M, R), from the insert of the forward reaction on
ParseReactionInsert(M, R, name) ==
    IF Len(R.rate) > 1
    THEN [M EXCEPT !.reactions =
             CollInsert(
                 CollInsert(M.reactions,
                     [name |-> name, left |-> ParseSpeciesList(M, R.left),
                      right |-> ParseSpeciesList(M, R.right), rate |-> R.rate[1]]),
                 [name |-> UniqueKey(
                               CollInsert(M.reactions,
                                   [name |-> name, left |-> <<>>, right |-> <<>>,
                                    rate |-> 0]),
                               NameText(name) \o "_rev", 0),
                  left |-> ParseSpeciesList(M, R.right),
                  right |-> ParseSpeciesList(M, R.left), rate |-> R.rate[2]])]
    ELSE [M EXCEPT !.reactions =
             CollInsert(M.reactions,
                 [name |-> name, left |-> ParseSpeciesList(M, R.left),
                  right |-> ParseSpeciesList(M, R.right), rate |-> R.rate[1]])]

\* parse_reaction(M, R) for an entry without a name
ParseReaction(M, R) ==
    IF Len(R.rate) < 1 \/ Len(R.rate) > 2 THEN LoadThrows(M, "model_io_error")
    ELSE IF SpeciesListThrows(M, R.left) \/ SpeciesListThrows(M, R.right)
    THEN LoadThrows(M, "model_io_error")
    ELSE IF R.rate[1] < Epsilon
    THEN LoadThrows(M, "model_incorrectBiologicalValue_error")
    ELSE Loading(ParseReactionInsert(M, R,
                     CheckOrMakeUniqueName(M.reactions, <<>>, "_r")))

\* rd_model_read_yaml: the entries of one kind, in order, until one throws
RECURSIVE ParseAll(_, _, _)
ParseAll(state, entries, kind) ==
    IF entries = <<>> \/ state.threw # "nothing" THEN state
    ELSE ParseAll(IF kind = "wmvol" THEN ParseCellsWmvol(state.M, Head(entries))
                  ELSE IF kind = "species" THEN ParseSpecies(state.M, Head(entries))
                  ELSE ParseReaction(state.M, Head(entries)),
                  Tail(entries), kind)

\* rd_model_read_yaml(Y, model_name), for a document that holds the model
\* and a cells specification
RdModelReadYaml(doc) ==
    ParseAll(ParseAll(ParseAll(Loading(ModelNew), doc.cells, "wmvol"),
                      doc.species, "species"),
             doc.reactions, "reaction")

\* ------------------------------------------------------------------------
\* Specification of the loader: one call of rd_model_read
\* ------------------------------------------------------------------------
\* loaded = [doc, M, threw]: the document read, the model built until the
\* call returned or threw, and the exception.  (A behaviour reads one
\* document.)

DocVals == (0 - 1)..MaxVal

Optional(S) == {<<>>} \cup {<<v>> : v \in S}

SpeciesEntries ==
    [name : {<<"A", 0>>, <<"B", 0>>}, diffusivity : Optional(DocVals),
     concentration : Optional(DocVals)]

ReactionEntries ==
    [rate : [1..1 -> DocVals] \cup [1..2 -> DocVals], left : {<<<<"A", 0>>>>},
     right : {<<<<"A", 0>>>>, <<<<"B", 0>>>>}]

\* Species lists of one entry, or of two whose second entry has a valid
\* diffusivity
SpeciesLists ==
    {<<s>> : s \in {e \in SpeciesEntries : e.name = <<"A", 0>>}}
        \cup {<<s, t>> : s \in {e \in SpeciesEntries : e.name = <<"A", 0>>},
                         t \in {e \in SpeciesEntries : e.diffusivity = <<MaxVal>>}}

Documents ==
    [cells : [1..1 -> DocVals], species : SpeciesLists,
     reactions : {<<>>} \cup [1..1 -> ReactionEntries]]

InitLoad ==
    /\ loaded = [doc |-> <<>>, M |-> ModelNew, threw |-> "nothing"]
    /\ last = NoCall
    /\ nops = 0
    /\ EngineIdle
    /\ sampler = NoEngine /\ bins = NoEngine /\ collection = NoEngine
    /\ guarded = NoEngine /\ msets = NoEngine
    /\ driver = NoEngine

\* rd_model_read(s, model_name)
ReadCall(doc) ==
    /\ nops = 0
    /\ nops' = 1
    /\ loaded' = [doc |-> doc, M |-> RdModelReadYaml(doc).M,
                  threw |-> RdModelReadYaml(doc).threw]
    /\ last' = [op |-> "read"]
    /\ UNCHANGED <<engine, sampler, bins, collection, guarded, msets, driver>>

NextLoad ==
    /\ nops = 0
    /\ \E doc \in Documents : ReadCall(doc)

SpecLoad == InitLoad /\ [][NextLoad]_vars

\* The numeric invariants of a document: diffusivity >= 0 and
\* concentration >= 0 (0 when left out), every rate >= 0, every volume > 0
NumbersValid(doc) ==
    /\ \A i \in DOMAIN doc.cells : doc.cells[i] > 0
    /\ \A i \in DOMAIN doc.species :
          /\ ValueOr(doc.species[i].diffusivity, 0) >= 0
          /\ ValueOr(doc.species[i].concentration, 0) >= 0
    /\ \A i \in DOMAIN doc.reactions :
          \A j \in DOMAIN doc.reactions[i].rate : doc.reactions[i].rate[j] >= 0

\* The document names no species twice and its reactions name species it
\* declares
NamesValid(doc) ==
    /\ \A i, j \in DOMAIN doc.species :
          doc.species[i].name = doc.species[j].name => i = j
    /\ \A i \in DOMAIN doc.reactions :
          \A n \in {doc.reactions[i].left[k] : k \in DOMAIN doc.reactions[i].left}
                \cup {doc.reactions[i].right[k] :
                         k \in DOMAIN doc.reactions[i].right} :
              \E j \in DOMAIN doc.species : doc.species[j].name = n

\* C27: the loader rejects a model exactly when a numeric invariant is
\* violated, and accepts every model with diffusivity >= 0, concentration
\* >= 0, rate >= 0 and volume > 0, values left out or given as 0 included.
C27_RejectsExactlyInvalidNumbers ==
    (last.op = "read" /\ NamesValid(loaded.doc)) =>
        (loaded.threw # "nothing" <=> ~NumbersValid(loaded.doc))

\* ------------------------------------------------------------------------
\* Validation guards (check_valid.h)
\* ------------------------------------------------------------------------
\* The object is the zero_n of test_check_valid.cc: one int n, valid when
\* n = 0.

MaxGuardOps == 5

\* The values the tests store in n
GuardValues == {0 - 3, 0, 4}

\* zero_n::is_valid(): a valid_info
ZeroNIsValid(n) ==
    IF n < 0 THEN [valid |-> FALSE, what |-> "n is negative"]
    ELSE IF n > 0 THEN [valid |-> FALSE, what |-> "n is positive"]
    ELSE [valid |-> TRUE, what |-> ""]

\* impl::make_validation_failure(v) for a V with what()
MakeValidationFailure(v) == [type |-> "validation_failure", what |-> v.what]

NoException == [type |-> "nothing", what |-> ""]

\* impl::check_valid_guard_type::run(): the exception it throws (a variant
\* that never throws comes first)
RunNeverThrows(n) == NoException

GuardRun(n) ==
    IF ZeroNIsValid(n).valid THEN NoException
    ELSE MakeValidationFailure(ZeroNIsValid(n))

\* guarded = [n, pc, value, entry, ran, checks, threw]: the object; the
\* position in set_zero_n(z, value) ("idle" outside of it, "body" after the
\* guard is constructed, "exit" after the body); and of the latest call the
\* argument, n on entry, whether the body ran, the number of is_valid()
\* calls and the exception that ended it.  The guard is constructed in
\* place (the copies of check_valid_guard's return are elided).
InitGuard ==
    /\ guarded = [n |-> 0, pc |-> "idle", value |-> 0, entry |-> 0,
                  ran |-> FALSE, checks |-> 0, threw |-> NoException]
    /\ last = NoCall
    /\ nops = 0
    /\ EngineIdle
    /\ sampler = NoEngine /\ bins = NoEngine /\ collection = NoEngine
    /\ loaded = NoEngine /\ msets = NoEngine
    /\ driver = NoEngine

GuardStep(op, g) ==
    /\ nops' = nops + 1
    /\ guarded' = g
    /\ last' = [op |-> op]
    /\ UNCHANGED <<engine, sampler, bins, collection, loaded, msets, driver>>

\* z.n = value outside of a guarded scope
AssignN(value) ==
    /\ nops < MaxGuardOps
    /\ guarded.pc = "idle"
    /\ GuardStep("assign", [guarded EXCEPT !.n = value])

\* set_zero_n(z, value) up to `auto _(check_valid_guard(z));`: the
\* constructor runs the check and its exception leaves the function
GuardEnter(value) ==
    /\ nops < MaxGuardOps
    /\ guarded.pc = "idle"
    /\ GuardStep("enter",
           [guarded EXCEPT
               !.value = value, !.entry = guarded.n, !.ran = FALSE,
               !.checks = 1, !.threw = GuardRun(guarded.n),
               !.pc = IF GuardRun(guarded.n).type = "nothing" THEN "body"
                      ELSE "idle"])

\* z.n = value inside the scope
GuardBody ==
    /\ guarded.pc = "body"
    /\ GuardStep("body", [guarded EXCEPT !.n = guarded.value, !.ran = TRUE,
                                         !.pc = "exit"])

\* The end of the scope: the destructor runs the check
GuardExit ==
    /\ guarded.pc = "exit"
    /\ GuardStep("exit", [guarded EXCEPT !.checks = guarded.checks + 1,
                                         !.threw = GuardRun(guarded.n),
                                         !.pc = "idle"])

NextGuard ==
    \/ \E value \in GuardValues : AssignN(value)
    \/ \E value \in GuardValues : GuardEnter(value)
    \/ GuardBody
    \/ GuardExit

SpecGuard == InitGuard /\ [][NextGuard]_vars

\* C28: a check_valid_guard validates the object once when it is created
\* and once when the guarded scope ends: an object invalid on entry makes
\* the constructor throw validation_failure before the body runs, so that
\* the body's mutation is not applied; an object the body leaves invalid
\* makes the end of the scope throw validation_failure; nothing is thrown
\* when the object is valid at both points.
C28_GuardValidatesAtEntryAndExit ==
    /\ last.op = "enter" =>
          /\ guarded.checks = 1
          /\ guarded.threw.type = "validation_failure"
                <=> ~ZeroNIsValid(guarded.entry).valid
          /\ guarded.threw.type = "validation_failure" =>
                /\ guarded.pc = "idle" /\ ~guarded.ran
                /\ guarded.n = guarded.entry
          /\ guarded.threw.type = "nothing" => guarded.pc = "body"
    /\ last.op = "body" => guarded.checks = 1 /\ guarded.threw.type = "nothing"
    /\ last.op = "exit" =>
          /\ guarded.checks = 2 /\ guarded.ran
          /\ ZeroNIsValid(guarded.entry).valid
          /\ guarded.n = guarded.value
          /\ guarded.threw.type = "validation_failure"
                <=> ~ZeroNIsValid(guarded.n).valid
          /\ guarded.threw.what = ZeroNIsValid(guarded.n).what

\* A scope whose body made the object invalid has ended.
C28_Witness ==
    /\ last.op = "exit"
    /\ guarded.threw.type = "validation_failure"
    /\ guarded.n = 4

\* ------------------------------------------------------------------------
\* Small multisets (tiny_multiset.h)
\* ------------------------------------------------------------------------
\* A multiset is the sequence of its stored keys, in insertion order: the
\* vector v of small_multiset, data[0..n) of tiny_multiset.

MaxMsetLen == 3

MsetKeys == 1..2

\* What a read past the stored keys can give: a key, or a value that is no
\* key
Junk == 0

\* count(key)
MsetCount(m, key) == Cardinality({i \in DOMAIN m : m[i] = key})

\* std::is_permutation(first1, last1, first2, eq) over r1 = [first1, last1)
\* and the range r2 of the same length that starts at first2
IsPermutation(r1, r2) ==
    \A i \in DOMAIN r1 : MsetCount(r1, r1[i]) = MsetCount(r2, r1[i])

\* The range of Len(a) elements read from b.begin() on: the stored keys of
\* b, followed by whatever lies behind them when b is the shorter
ReadFrom(b, len, behind) ==
    [i \in 1..len |-> IF i <= Len(b) THEN b[i] ELSE behind[i - Len(b)]]

\* operator==(a, b) of small_multiset and tiny_multiset_common
MsetEqual(a, b, behind) == IsPermutation(a, ReadFrom(b, Len(a), behind))

\* msets = [a, b, x, y, result]: two multisets, and of the latest
\* comparison x == y the operands and the result.
InitMset ==
    /\ msets = [a |-> <<>>, b |-> <<>>, x |-> <<>>, y |-> <<>>, result |-> TRUE]
    /\ last = NoCall
    /\ nops = 0
    /\ EngineIdle
    /\ sampler = NoEngine /\ bins = NoEngine /\ collection = NoEngine
    /\ loaded = NoEngine /\ guarded = NoEngine /\ driver = NoEngine

MsetStep(op, m) ==
    /\ msets' = m
    /\ last' = [op |-> op]
    /\ nops' = 0
    /\ UNCHANGED <<engine, sampler, bins, collection, loaded, guarded, driver>>

\* a.insert(key)
MsetInsertA(key) ==
    /\ Len(msets.a) < MaxMsetLen
    /\ MsetStep("insert", [msets EXCEPT !.a = Append(msets.a, key)])

\* b.insert(key)
MsetInsertB(key) ==
    /\ Len(msets.b) < MaxMsetLen
    /\ MsetStep("insert", [msets EXCEPT !.b = Append(msets.b, key)])

\* a == b
MsetEqualAB(behind) ==
    /\ Len(behind) = Max(Len(msets.a) - Len(msets.b), 0)
    /\ MsetStep("equal", [msets EXCEPT !.x = msets.a, !.y = msets.b,
                              !.result = MsetEqual(msets.a, msets.b, behind)])

\* b == a
MsetEqualBA(behind) ==
    /\ Len(behind) = Max(Len(msets.b) - Len(msets.a), 0)
    /\ MsetStep("equal", [msets EXCEPT !.x = msets.b, !.y = msets.a,
                              !.result = MsetEqual(msets.b, msets.a, behind)])

NextMset ==
    \/ \E key \in MsetKeys : MsetInsertA(key)
    \/ \E key \in MsetKeys : MsetInsertB(key)
    \/ \E behind \in SeqsUpTo(MsetKeys \cup {Junk}, MaxMsetLen) :
          MsetEqualAB(behind)
    \/ \E behind \in SeqsUpTo(MsetKeys \cup {Junk}, MaxMsetLen) :
          MsetEqualBA(behind)

SpecMset == InitMset /\ [][NextMset]_vars

\* C29: two multisets compare equal if and only if they have the same
\* number of elements and every key has the same multiplicity in both,
\* whatever the insertion order; multisets of different sizes never compare
\* equal, in either argument order.
C29_EqualIffSameMultiplicities ==
    last.op = "equal" =>
        (msets.result <=>
            /\ Len(msets.x) = Len(msets.y)
            /\ \A key \in MsetKeys :
                  MsetCount(msets.x, key) = MsetCount(msets.y, key))

\* ------------------------------------------------------------------------
\* C30
\* ------------------------------------------------------------------------

\* C30: once initialise has returned, the stale flag of an instance is true
\* exactly when the instance holds no cached event: it is true after
\* initialise, after a fired event and after set_count on the instance, and
\* false only while an event polled by advance(instance, t_end, rng) waits to
\* be fired or invalidated.  An advance call that finds the flag true (as
\* after set_count) polls the selector as set_count's observer left it, with
\* the caller's generator, and that event is the first it fires or caches;
\* every further event of the call is polled after the firing before it.
C30_StaleIffNoCachedEvent ==
    InitDone(sim, ipc) =>
        /\ \A i \in Instances(scen) : sim.states[i].stale <=> ~pend[i].valid
        /\ last.op = "initialise" => \A i \in Instances(scen) : sim.states[i].stale
        /\ last.op = "set_count" => sim.states[last.instance].stale
        /\ (last.op = "advance" /\ ~last.threw) =>
              /\ sim.states[last.instance].stale
              /\ Len(last.fired) = 1
        /\ (last.op \in {"advance", "advance_to"} /\ ~last.threw) =>
              /\ (last.op = "advance_to") => ~sim.states[last.instance].stale
              /\ \A j \in 2..Len(last.fired) :
                    last.fired[j].g = RngNext(RngNext(last.fired[j-1].g))
              /\ last.pre.states[last.instance].stale =>
                    LET ev == SelNext(last.pre.states[last.instance].ksel, last.preg)
                        st == sim.states[last.instance]
                    IN IF last.fired # <<>>
                       THEN /\ last.fired[1].k = ev.k
                            /\ last.fired[1].dt = ev.dt
                            /\ last.fired[1].g = ev.g
                       ELSE /\ st.next_k_id = ev.k
                            /\ st.t + st.next_dt
                                  = last.pre.states[last.instance].t + ev.dt
                            /\ rng[last.instance] = ev.g

\* set_count was called on an instance that held a cached event, and
\* discarded it.
C30_Witness ==
    /\ last.op = "set_count"
    /\ last.pend.valid
    /\ ~last.pre.states[last.instance].stale
    /\ sim.states[last.instance].stale

\* ------------------------------------------------------------------------
\* C31
\* ------------------------------------------------------------------------

\* Every propensity the selector of instance i holds in engine S is zero,
\* and so is its total
SelectorIsDead(S, i) ==
    /\ S.states[i].ksel.total = 0
    /\ \A k \in DOMAIN S.states[i].ksel.propensities :
          S.states[i].ksel.propensities[k] = 0

\* C31: when every propensity of an instance is zero (total = 0),
\* advance(instance, t_end, rng) raises the selector's ssa_error: the
\* selector, t[instance], the counts of the instance and its stale flag are
\* as before the call, and the time has not moved to t_end.
C31_DeadInstanceAdvanceThrows ==
    (last.op = "advance_to" /\ SelectorIsDead(last.pre, last.instance)) =>
        /\ last.threw
        /\ last.fired = <<>>
        /\ sim.states[last.instance] = last.pre.states[last.instance]
        /\ sim.states[last.instance].t < last.t_end
        /\ sim.ksys.pop_count[last.instance] = last.pre.ksys.pop_count[last.instance]
        /\ sim.ksys.propensity_tbl[last.instance]
              = last.pre.ksys.propensity_tbl[last.instance]

\* advance(instance, t_end, rng) was called on an instance whose last process
\* had fired before, and threw.
C31_Witness ==
    /\ last.op = "advance_to" /\ last.threw
    /\ SelectorIsDead(last.pre, last.instance)
    /\ last.pre.states[last.instance].t > 0
    /\ last.pre.states[last.instance].stale

\* ------------------------------------------------------------------------
\* C32
\* ------------------------------------------------------------------------

\* A freshly constructed process system to which the processes of procsys
\* have been added
FreshSys ==
    AddAll(ProcsysNew(procsys.sys.n_instance),
           [i \in DOMAIN procsys.descs |-> procsys.descs[i].q])

SharedTables(sys) ==
    [rate |-> sys.rate, pop_to_pc_tbl |-> sys.pop_to_pc_tbl,
     proc_delta_tbl |-> sys.proc_delta_tbl, n_proc |-> sys.n_proc,
     n_pop |-> sys.n_pop, n_instance |-> sys.n_instance]

C34_RejectedAddLeavesSystemUnchanged ==
    (last.op = "add" /\ last.outcome = "invalid_value") =>
        /\ procsys.sys = last.pre
        /\ procsys.sys.n_proc = VSize(procsys.sys.rate)
        /\ procsys.sys.n_proc = VSize(procsys.sys.proc_delta_tbl)
        /\ \A j \in DOMAIN procsys.sys.propensity_tbl :
              procsys.sys.n_proc = VSize(procsys.sys.propensity_tbl[j])

\* ------------------------------------------------------------------------
\* C35
\* ------------------------------------------------------------------------

\* C35: a multinomial draw sampler whose parameter is set to
\* param_type(n, w) is the sampler constructed with (n, w): its sample size
\* is n, its population size is the number of weights, and it draws index i
\* with probability w[i] / sum(w).
C35_ParamIsBuiltOverSuppliedWeights ==
    last.op = "param" =>
        /\ sampler.n = last.n
        /\ SamplerSize(sampler) = Len(last.mu)
        /\ Len(sampler.w) = Len(last.mu)
        /\ \A i \in DOMAIN sampler.w \cap DOMAIN last.mu :
              sampler.w[i] * SeqSum(last.mu) = last.mu[i] * SeqSum(sampler.w)

\* ------------------------------------------------------------------------
\* C36
\* ------------------------------------------------------------------------

\* C36: constructing an ordered systematic sampler parameter throws
\* out_of_range when an inclusion probability at any position, the first
\* included, lies outside [0,1]; otherwise the stored parameter is the
\* sequence of prefix sums of the probabilities.
C36_OssParamRejectsOutOfRange ==
    (last.op = "construct" /\ sampler.kind = "ordered_systematic") =>
        /\ last.threw <=>
              \E i \in DOMAIN last.pi : last.pi[i] < 0 \/ last.pi[i] > PiDen
        /\ ~last.threw =>
              sampler.pi_psum =
                  [i \in DOMAIN last.pi |-> UDen * SeqSum(SubSeq(last.pi, 1, i))]

\* ------------------------------------------------------------------------
\* C37
\* ------------------------------------------------------------------------

\* The key generated for the item at population position b in the latest
\* sample call of a reservoir sampler
KeyAt(b) == NextOrder(sampler.nparam, b, last.ords[b + 1])

\* C37: for a population of N >= n items order_reservoir_sample returns n
\* and leaves in the output n items from n pairwise distinct positions, whose
\* keys are the n smallest: every item left out has a key >= the key of every
\* item in the output.  For N < n it returns N with the whole population
\* written.
C37_ReservoirKeepsSmallestKeys ==
    (last.op = "sample"
        /\ sampler.kind \in {"adjusted_pareto", "efraimidis_spirakis"}) =>
        IF sampler.popN >= sampler.n
        THEN /\ sampler.res.threw = "nothing"
             /\ sampler.res.ret = sampler.n
             /\ Len(sampler.res.out) = sampler.n
             /\ \A i \in DOMAIN sampler.res.out :
                   sampler.res.out[i] \in 0..(sampler.popN - 1)
             /\ \A i, j \in DOMAIN sampler.res.out :
                   sampler.res.out[i] = sampler.res.out[j] => i = j
             /\ \A b \in 0..(sampler.popN - 1) :
                   (\A i \in DOMAIN sampler.res.out : sampler.res.out[i] # b) =>
                       \A i \in DOMAIN sampler.res.out :
                           KeyAt(b) >= KeyAt(sampler.res.out[i])
        ELSE /\ sampler.res.threw = "nothing"
             /\ sampler.res.ret = sampler.popN
             /\ sampler.res.out = [i \in 1..sampler.popN |-> i - 1]

\* A sample of two from four items replaced an item of the reservoir by a
\* later one and passed over another.
C37_Witness ==
    /\ last.op = "sample"
    /\ sampler.kind \in {"adjusted_pareto", "efraimidis_spirakis"}
    /\ sampler.n = 2 /\ sampler.popN = 4
    /\ \E i \in DOMAIN sampler.res.out : sampler.res.out[i] >= 2
    /\ \E b \in 2..3 : \A i \in DOMAIN sampler.res.out : sampler.res.out[i] # b

\* ------------------------------------------------------------------------
\* C38
\* ------------------------------------------------------------------------

\* C38: when cps_multinomial_rejective::sample returns n for a population
\* of at least n items, the n items written come from n pairwise distinct
\* positions and are the latest n consecutive draws of the categorical
\* distribution, in the order drawn: a repeated index discards every draw of
\* the attempt, itself included, and the next attempt starts empty (so the
\* draw before the n written ones, if there is one, repeated a draw of its
\* attempt).
C38_CpsWritesLastRunOfDistinctDraws ==
    (last.op = "sample" /\ sampler.kind = "cps_multinomial_rejective"
        /\ sampler.res.threw = "nothing" /\ sampler.popN >= sampler.n) =>
        /\ sampler.res.ret = sampler.n
        /\ Len(last.draws) >= sampler.n
        /\ sampler.res.out
              = SubSeq(last.draws, Len(last.draws) - sampler.n + 1, Len(last.draws))
        /\ \A i, j \in DOMAIN sampler.res.out :
              sampler.res.out[i] = sampler.res.out[j] => i = j
        /\ \A i \in DOMAIN sampler.res.out :
              sampler.res.out[i] \in 0..(sampler.popN - 1)
        /\ (sampler.n > 0 /\ Len(last.draws) > sampler.n) =>
              \E q \in 1..(Len(last.draws) - sampler.n - 1) :
                  /\ last.draws[q] = last.draws[Len(last.draws) - sampler.n]
                  /\ \A i, j \in q..(Len(last.draws) - sampler.n - 1) :
                        last.draws[i] = last.draws[j] => i = j

\* A sample of two was completed after an attempt was discarded.
C38_Witness ==
    /\ last.op = "sample" /\ sampler.kind = "cps_multinomial_rejective"
    /\ sampler.res.threw = "nothing"
    /\ sampler.n = 2 /\ sampler.popN >= 2
    /\ Len(last.draws) = 4
    /\ last.draws[1] = last.draws[2]

\* ------------------------------------------------------------------------
\* Specification of initialise over fractional concentration*volume: one
\* species A with A -> nothing, rate 1, in one cell; two instances whose
\* loop bodies interleave.
\* ------------------------------------------------------------------------

\* Largest concentration, in tenths.
MaxConc10 == 26

\* Largest cell volume.
MaxVolume == 2

Mconc(conc10, volume) ==
    [species |-> <<[diffusivity |-> 0, conc10 |-> conc10]>>,
     reactions |-> <<[left |-> <<0>>, right |-> <<>>, rate |-> 1]>>,
     cells |-> <<[volume |-> volume, neighbours |-> <<>>]>>]

ConcScenarios ==
    { [M |-> Mconc(conc10, volume), n_instances |-> 2, t0 |-> 0] :
          conc10 \in 0..MaxConc10, volume \in 1..MaxVolume }

InitConc ==
    /\ scen \in ConcScenarios
    /\ sim = InitialiseTables(scen.n_instances, scen.M)
    /\ ipc = [i \in Instances(scen) |-> 0]
    /\ rng = Seeded(scen, 0)
    /\ nops = 0
    /\ last = NoCall
    /\ pend = [i \in Instances(scen) |-> NoPending]
    /\ solo = NoSolo
    /\ twin = NoEngine
    /\ selector = NoSelector
    /\ written = VEmpty
    /\ procsys = NoEngine /\ categorical = NoEngine
    /\ ApartIdle

NextConc == \E i \in Instances(scen) : InitialiseStepAct(i)

SpecConc == InitConc /\ [][NextConc]_vars

\* C39: once the loop body of initialise has made its set_count calls for an
\* instance, the count of every species s in every cell c of that instance is
\* species.concentration * cell.volume rounded to the nearest integer: it
\* differs from the product by at most one half (0.7 gives 1), and is not the
\* product truncated toward zero.
C39_InitialCountIsRounded ==
    \A i \in Instances(scen) :
        ipc[i] > sim.n_pop =>
            \A s_id \in 0..(sim.n_species - 1), c_id \in 0..(sim.n_cell - 1) :
                LET product10 == scen.M.species[s_id + 1].conc10
                                     * scen.M.cells[c_id + 1].volume
                    count == Count(sim.ksys,
                                   SpeciesToPopId(sim.n_species, s_id, c_id), i)
                IN /\ 2 * (10 * count - product10) <= 10
                   /\ 2 * (product10 - 10 * count) <= 10

\* ------------------------------------------------------------------------
\* demo_sim: the driver run with -n N, -d D and -P P
\*
\* driver = [n, dn, loops], loops[p] the thread of instance p inside
\* run_sim_by_steps: [pc, i, j, events, samples], events the calls
\* t = S.advance(p, g) that returned, samples the number of events behind the
\* instance at each emit_state. An advance is taken to return (the system
\* has an event left).
\* ------------------------------------------------------------------------

\* Largest N of -n N.
MaxEvents == 5

\* Largest D of -d D.
MaxDelta == 3

\* Largest P of -P P.
MaxInstances == 2

\* main: `if (A.sample_delta<1) A.sample_delta=1;` and the (size_t) cast at
\* the call of run_sim_by_steps
SampleDelta(d) == IF d < 1 THEN 1 ELSE d

\* main up to the call of run_sim_by_steps: the initial state of every
\* instance is emitted, then each thread starts its loop with i = 0
InitDriver ==
    /\ \E n \in 1..MaxEvents, d \in 0..MaxDelta, P \in 1..MaxInstances :
          driver = [n |-> n, dn |-> SampleDelta(d),
                    loops |-> [p \in 0..(P - 1) |->
                                  [pc |-> "outer", i |-> 0, j |-> 0, events |-> 0,
                                   samples |-> <<0>>]]]
    /\ last = NoCall
    /\ nops = 0
    /\ EngineIdle
    /\ sampler = NoEngine /\ bins = NoEngine /\ collection = NoEngine
    /\ loaded = NoEngine /\ guarded = NoEngine /\ msets = NoEngine

DriverStep(op, p, loop) ==
    /\ driver' = [driver EXCEPT !.loops[p] = loop]
    /\ last' = [op |-> op, p |-> p]
    /\ UNCHANGED <<engine, nops, sampler, bins, collection, loaded, guarded, msets>>

\* for (size_t i=0; i<n; i+=dn): the test, then j = 0
StepsOuterTest(p) ==
    LET loop == driver.loops[p]
    IN /\ loop.pc = "outer"
       /\ DriverStep("test", p,
                     IF loop.i < driver.n
                     THEN [loop EXCEPT !.pc = "inner", !.j = 0]
                     ELSE [loop EXCEPT !.pc = "done"])

\* for (size_t j=0; j<dn; ++j) t=S.advance(p,g);
StepsAdvance(p) ==
    LET loop == driver.loops[p]
    IN /\ loop.pc = "inner"
       /\ loop.j < driver.dn
       /\ DriverStep("advance", p,
                     [loop EXCEPT !.events = @ + 1, !.j = @ + 1])

\* emitter.emit_state(std::cout,p,t,S); then i += dn
StepsEmit(p) ==
    LET loop == driver.loops[p]
    IN /\ loop.pc = "inner"
       /\ loop.j >= driver.dn
       /\ DriverStep("emit", p,
                     [loop EXCEPT !.samples = Append(@, loop.events),
                                  !.i = @ + driver.dn, !.pc = "outer"])

NextDriver ==
    \/ \E p \in DOMAIN driver.loops : StepsOuterTest(p)
    \/ \E p \in DOMAIN driver.loops : StepsAdvance(p)
    \/ \E p \in DOMAIN driver.loops : StepsEmit(p)

SpecDriver == InitDriver /\ [][NextDriver]_vars

\* C40: when run_sim_by_steps has finished for an instance, the instance has
\* executed exactly N events, whether or not the sampling interval d divides
\* N, and its state was emitted at the start and then after every d events.
C40_RunsExactlyNEvents ==
    \A p \in DOMAIN driver.loops :
        driver.loops[p].pc = "done" =>
            /\ driver.loops[p].events = driver.n
            /\ \A m \in DOMAIN driver.loops[p].samples :
                   driver.loops[p].samples[m] = (m - 1) * driver.dn

====
